---- MODULE Spec2Model ----
(***************************************************************************)
(* A model of Spiderweb-api's object-graph mapping layer (package neo)     *)
(* and of its request routing (package routing): the model registry, the  *)
(* Find/FindAll/Populate read path, the relationship-field walk that       *)
(* composes the traversal segments, the reconstruction of typed entities   *)
(* from result records, the write path Create / Update / Delete with the   *)
(* statements it composes, the QueryBuilder, and the Router with its Mux.  *)
(*                                                                         *)
(* Ten specifications share the module's variables:                        *)
(*   RegSpec     RegisterModel and resolveTypeFromLabels on the registry   *)
(*   TreeSpec    buildNodeTree applied to a list of result records         *)
(*   RelSpec     PopulateQuery.buildRelationships, one loop step at a time *)
(*   RelWalkSpec RelSpec with the walk's steps taken whenever enabled      *)
(*   Spec        Find / FindAll / Populate on one base model               *)
(*   StmtSpec    buildCreateQuery and buildUpdateQuery on entities and     *)
(*               relation options                                          *)
(*   ShapeSpec   StmtSpec over an entity type whose property keys are      *)
(*               value and relatedValue                                    *)
(*   GraphSpec   Create / Update / Delete / Find.Populate against a graph  *)
(*               held by the engine                                        *)
(*   QbSpec      the QueryBuilder's fluent calls followed by Build         *)
(*   MuxSpec     Router.Use, Router.Handle and Mux.ServeHTTP               *)
(***************************************************************************)
EXTENDS Integers, Sequences, FiniteSets, TLC

VARIABLES
    modelRegistry,  \* var modelRegistry: label -> reflect.Type
    halted,         \* the process died in a panic of RegisterModel
    regCall,        \* the last RegisterModel call: its arguments
    resolveCall,    \* the last resolveTypeFromLabels call: labels and result
    treeT,          \* buildNodeTree's type parameter T
    recordList,     \* the records handed to buildNodeTree
    treeOut,        \* what buildNodeTree returned
    relSchema,      \* the entity types the walk runs over
    relRoot,        \* the type buildRelationships is first called with
    relDepth,       \* PopulateOptions.Depth
    stack,          \* the call stack of buildRelationships
    paths,          \* the traversal segments appended so far
    covered,        \* history: the (type, field, level) each segment came from
    baseT,          \* the type parameter T of the base model
    Label,          \* NeoBaseModel.Label
    driver,         \* NeoBaseModel.driver: "nil", "open" or "closed"
    sessionsOpened, \* sessions Populate has opened so far
    q,              \* the PopulateQuery descriptor
    model,          \* the caller's entity, a T
    models,         \* the caller's slice of T
    err,            \* what the last Populate returned
    lastOp,         \* the operation that ran last
    mappedNodes,    \* what buildNodeTree returned inside the last Populate
    lastQuery,      \* the query the last Populate composed
    stmt,           \* the statement Create, Update or Delete composed last
    call,           \* the arguments of the call that composed it
    graph,          \* the graph the engine holds
    ids,            \* element identifiers the engine has handed out
    calls,          \* top-level operations started; a session is named by its call
    openSessions,   \* sessions opened and not yet closed
    lastTx,         \* the last transaction: its call, its session, the node it returned
    pc,             \* the Delete that has read and not yet deleted, if any
    qb,             \* the QueryBuilder: query, returnClause, params
    qbLog,          \* history: the calls made on the builder, in order
    qbOut,          \* what Build returned
    router,         \* Router.middleware
    mux,            \* the Mux: routes, RouterMiddleware, RouteMiddleware
    regLog,         \* history: the Use and Handle calls made, in order
    req,            \* the request served last
    served          \* what serving it ran, and the Context the handler got

regVars  == <<modelRegistry, halted, regCall, resolveCall>>
treeVars == <<treeT, recordList, treeOut>>
relVars  == <<relSchema, relRoot, relDepth, stack, paths, covered>>
opVars   == <<baseT, Label, driver, sessionsOpened, q, model, models, err, lastOp,
              mappedNodes, lastQuery>>
stmtVars == <<stmt, call>>
graphVars == <<graph, ids, calls, openSessions, lastTx, pc>>
writeVars == <<stmtVars, graphVars>>
qbVars   == <<qb, qbLog, qbOut>>
muxVars  == <<router, mux, regLog, req, served>>
webVars  == <<qbVars, muxVars>>
vars     == <<regVars, treeVars, relVars, opVars, writeVars, webVars>>

(***************************************************************************)
(* Bounds of the model.                                                    *)
(***************************************************************************)
MaxLabels  == 2   \* labels on one node
MaxRecords == 2   \* records in one result set
MaxDepth   == 3   \* largest PopulateOptions.Depth tried
MaxStack   == 6   \* frames of buildRelationships kept before the walk is cut
MaxCalls   == 2   \* Populate calls on one base model
MaxNodes   == 2   \* nodes the engine creates in one run
MaxOps     == 3   \* Create, Update, Delete and Populate calls in one run
MaxQbCalls == 3   \* calls made on one QueryBuilder before Build
MaxRegs    == 3   \* Use and Handle calls made on one Router

(***************************************************************************)
(* reflect.Type, as far as the code looks at it: Kind(), Name(), Elem().   *)
(***************************************************************************)
Ty(k, n)      == [kind |-> k, name |-> n, elemKind |-> "", elemName |-> ""]
StructT(n)    == Ty("struct", n)
PtrT(t)       == [kind |-> "ptr", name |-> "", elemKind |-> t.kind, elemName |-> t.name]
Elem(t)       == Ty(t.elemKind, t.elemName)
NilT          == Ty("nil", "")      \* reflect.TypeOf(nil)
NoType        == Ty("", "")

(***************************************************************************)
(* The entity types of the repository (models/neo).  A field is its name,  *)
(* its `node` tag, its `rel` tag split at the comma (<<>> when the tag is  *)
(* absent), the kind of its type and, for a related type, that type's name.*)
(***************************************************************************)
F(n, nodeTag, relTag, k, e) ==
    [name |-> n, node |-> nodeTag, rel |-> relTag, kind |-> k, elem |-> e]
Base          == F("NeoBaseModel", "", <<>>, "struct", "NeoBaseModel")
Scalar(n, t, k) == F(n, t, <<>>, k, "")
Rel(n, r, d, e) == F(n, "", <<r, d>>, "slice_ptr", e)

User ==
    << Base,
       Scalar("Username", "username", "string"),
       Scalar("UserID", "userID", "int64"),
       Scalar("ID", "id", "string"),
       Rel("Worlds", "OWNS", "->", "World") >>
World ==
    << Base,
       Scalar("ID", "id", "string"),
       Scalar("Name", "name", "string"),
       Scalar("Type", "type", "string"),
       Scalar("Description", "description", "string"),
       Rel("Continents", "HAS", "->", "Continent"),
       Rel("Oceans", "HAS", "->", "Ocean") >>
Continent ==
    << Base,
       Scalar("ID", "id", "string"),
       Scalar("Name", "name", "string"),
       Scalar("Description", "description", "string"),
       Scalar("Type", "type", "string"),
       Rel("Zones", "HAS", "->", "Zone") >>
Ocean ==
    << Base,
       Scalar("ID", "id", "string"),
       Scalar("Name", "name", "string"),
       Scalar("Description", "description", "string") >>
Zone ==
    << Base,
       Scalar("ID", "id", "string"),
       Scalar("Name", "name", "string"),
       Scalar("Type", "type", "string"),
       Scalar("Description", "description", "string"),
       Rel("Locations", "HAS", "->", "Location"),
       Rel("Cities", "HAS", "->", "City"),
       Scalar("Biome", "biome", "string") >>
Location ==
    << Base,
       Scalar("ID", "id", "string"),
       Scalar("Name", "name", "string"),
       Scalar("Type", "type", "string"),
       Scalar("Description", "description", "string") >>
City ==
    << Base,
       Scalar("ID", "id", "string"),
       Scalar("Name", "name", "string"),
       Scalar("Type", "type", "string"),
       Scalar("Description", "description", "string"),
       Scalar("Capital", "capital", "bool") >>

ShapeNames == {"User", "World", "Continent", "Ocean", "Zone", "Location", "City"}
RepoSchema ==
    [s \in ShapeNames |->
        CASE s = "User"      -> User
          [] s = "World"     -> World
          [] s = "Continent" -> Continent
          [] s = "Ocean"     -> Ocean
          [] s = "Zone"      -> Zone
          [] s = "Location"  -> Location
          [] s = "City"      -> City]

\* main: neo.RegisterModel("User", &neoModels.User{}) ... ("City", &neoModels.City{})
MainRegistry == [s \in ShapeNames |-> StructT(s)]

(***************************************************************************)
(* Model registry.                                                         *)
(***************************************************************************)
\* modelRegistry[modelName] = typ
RegistryPut(reg, modelName, typ) ==
    [l \in DOMAIN reg \cup {modelName} |-> IF l = modelName THEN typ ELSE reg[l]]

\* The loop of resolveTypeFromLabels: labels in the node's own order.
RECURSIVE resolveLoop(_, _)
resolveLoop(labels, i) ==
    IF i > Len(labels)
    THEN [err |-> "unknown label", typ |-> NoType]
    ELSE IF labels[i] \in DOMAIN modelRegistry
         THEN [err |-> "", typ |-> modelRegistry[labels[i]]]
         ELSE resolveLoop(labels, i + 1)

\* A resolver that answers with the last registered label of the node.
resolveLastRegistered(labels) ==
    LET hits == {i \in 1..Len(labels) : labels[i] \in DOMAIN modelRegistry}
    IN  IF hits = {}
        THEN [err |-> "unknown label", typ |-> NoType]
        ELSE [err |-> "",
              typ |-> modelRegistry[labels[CHOOSE i \in hits : \A j \in hits : j <= i]]]

resolveTypeFromLabels(labels) == resolveLoop(labels, 1)

\* regCall and resolveCall describe the call that ran last, if it was theirs.
NoCall == [name |-> "", model |-> NoType]
NoResolve == [labels |-> <<>>, result |-> [err |-> "", typ |-> NoType]]

\* The values main or any caller may hand to RegisterModel, by dynamic type.
ModelArgs ==
    { PtrT(StructT("User")), PtrT(StructT("World")),   \* &User{}, &World{}
      PtrT(Ty("int", "int")),                          \* new(int)
      StructT("User"),                                 \* User{}
      Ty("int", "int"),                                \* 7
      NilT }                                           \* nil
RegNames == {"User", "World", "Admin"}

IsPtrToStruct(t) == t.kind = "ptr" /\ t.elemKind = "struct"

\* RegisterModel: modelType.Kind() != reflect.Ptr panics; so does Kind() on the
\* nil Type that reflect.TypeOf(nil) returns.  The panic ends the process.
RegisterModel(modelName, mt) ==
    /\ ~halted
    /\ regCall' = [name |-> modelName, model |-> mt]
    /\ IF mt.kind # "ptr"
       THEN /\ halted' = TRUE
            /\ UNCHANGED modelRegistry
       ELSE /\ modelRegistry' = RegistryPut(modelRegistry, modelName, Elem(mt))
            /\ UNCHANGED halted
    /\ resolveCall' = NoResolve

LabelNames == {"User", "World", "Admin", "Ghost"}
RECURSIVE SeqsUpTo(_, _)
SeqsUpTo(S, n) ==
    IF n = 0 THEN {<<>>}
    ELSE LET shorter == SeqsUpTo(S, n - 1)
         IN  shorter \cup {Append(s, x) : s \in {t \in shorter : Len(t) = n - 1}, x \in S}

\* A call of resolveTypeFromLabels on a node's label list.
ResolveType(labels) ==
    /\ ~halted
    /\ resolveCall' = [labels |-> labels, result |-> resolveTypeFromLabels(labels)]
    /\ regCall' = NoCall
    /\ UNCHANGED <<modelRegistry, halted>>

(***************************************************************************)
(* Result records.  A value of a record is a neo4j.Node (ElementId,        *)
(* Labels, Props) or something else; Props is a map, so a key may be       *)
(* absent.  Scalar values are written as strings ("7" for int64(7)).       *)
(***************************************************************************)
Node(id, labels, props) ==
    [isNode |-> TRUE, ElementId |-> id, Labels |-> labels, Props |-> props]
NonNode == [isNode |-> FALSE, ElementId |-> "", Labels |-> <<>>, Props |-> [k \in {} |-> ""]]

\* One record of "RETURN n, collect(r) as relatedNodes": record.Get("n") may
\* miss, and the relatedNodes value may be nil.
Record(hasN, n, relNil, related) ==
    [hasN |-> hasN, n |-> n, relNil |-> relNil, relatedNodes |-> related]

\* An entity type outside the repository whose property keys are the names
\* the statement builders bind their own values under.
Reading ==
    << Base,
       Scalar("ID", "id", "string"),
       Scalar("Value", "value", "string"),
       Scalar("RelatedValue", "relatedValue", "string") >>

FieldsOf(T) == IF T = "Reading" THEN Reading ELSE RepoSchema[T]
FieldIdx(T) == 1..Len(FieldsOf(T))
\* The fields an entity value holds here: all but the embedded base model.
OwnFields(T) == {i \in FieldIdx(T) : FieldsOf(T)[i].name # "NeoBaseModel"}
FieldNames(T) == {FieldsOf(T)[i].name : i \in OwnFields(T)}
FieldByName(T, fn) == FieldsOf(T)[CHOOSE i \in FieldIdx(T) : FieldsOf(T)[i].name = fn]

\* reflect.Zero(fieldValue.Type())
Zero(f) ==
    CASE f.kind = "string"    -> ""
      [] f.kind = "int64"     -> "0"
      [] f.kind = "bool"      -> "false"
      [] OTHER                -> <<>>

\* new(T)
ZeroEntity(T) == [fn \in FieldNames(T) |-> Zero(FieldByName(T, fn))]

\* A pass that treats the identifier like any other tagged field.
mapFieldFromProps(node, f, old) ==
    IF f.name = "Label" THEN old
    ELSE IF f.node = "" THEN old
    ELSE IF f.node \in DOMAIN node.Props THEN node.Props[f.node] ELSE Zero(f)

\* One pass of the field loop of mapNodeToModel / mapNodeToModelReflect: the
\* value field f has after the pass, given the value it had.
mapField(node, f, old) ==
    IF f.name = "ID" /\ f.node = "id"
    THEN IF node.ElementId # "" THEN node.ElementId ELSE Zero(f)
    ELSE IF f.name = "Label" THEN old
    ELSE IF f.node = "" THEN old
    ELSE IF f.node \in DOMAIN node.Props THEN node.Props[f.node] ELSE Zero(f)

mapNodeToModel(node, T, entity) ==
    [fn \in DOMAIN entity |-> mapField(node, FieldByName(T, fn), entity[fn])]

\* The same loop, reached through reflection for a related node.
mapNodeToModelReflect(node, T, entity) ==
    [fn \in DOMAIN entity |-> mapField(node, FieldByName(T, fn), entity[fn])]

\* field.Type.Elem().Elem() of a []*E field
expectedType(f) == StructT(f.elem)

\* The inner loop of mapRelatedNodesToModel for one relationship field.
RECURSIVE relatedLoop(_, _, _, _)
relatedLoop(f, relatedNodes, j, slice) ==
    IF j > Len(relatedNodes)
    THEN [err |-> "", slice |-> slice]
    ELSE LET v == relatedNodes[j]
             resolved == resolveTypeFromLabels(v.Labels)
         IN  IF ~v.isNode
             THEN relatedLoop(f, relatedNodes, j + 1, slice)
             ELSE IF resolved.err # ""
             THEN [err |-> resolved.err, slice |-> slice]
             ELSE IF resolved.typ # expectedType(f)
             THEN [err |-> "type mismatch", slice |-> slice]
             ELSE relatedLoop(f, relatedNodes, j + 1,
                      Append(slice,
                             mapNodeToModelReflect(v, resolved.typ.name,
                                                   ZeroEntity(resolved.typ.name))))

\* The outer loop of mapRelatedNodesToModel: the fields of T in order.
RECURSIVE relFieldLoop(_, _, _, _)
relFieldLoop(relatedNodes, T, i, entity) ==
    IF i > Len(FieldsOf(T))
    THEN [err |-> "", entity |-> entity]
    ELSE LET f == FieldsOf(T)[i]
         IN  IF f.rel = <<>> \/ f.kind # "slice_ptr"
             THEN relFieldLoop(relatedNodes, T, i + 1, entity)
             ELSE LET r == relatedLoop(f, relatedNodes, 1, <<>>)
                  IN  IF r.err # ""
                      THEN [err |-> r.err, entity |-> entity]
                      ELSE relFieldLoop(relatedNodes, T, i + 1,
                                        [entity EXCEPT ![f.name] = r.slice])

\* A mapping that drops the related nodes.
mapRelatedNodesSkipped(relatedNodes, T, entity) == [err |-> "", entity |-> entity]

mapRelatedNodesToModel(relatedNodes, T, entity) ==
    relFieldLoop(relatedNodes, T, 1, entity)

\* The record loop of buildNodeTree.
RECURSIVE recordLoop(_, _, _, _)
recordLoop(T, records, i, results) ==
    IF i > Len(records)
    THEN [err |-> "", results |-> results]
    ELSE LET rec == records[i]
             mapped == mapNodeToModel(rec.n, T, ZeroEntity(T))
             linked == IF rec.relNil
                       THEN [err |-> "", entity |-> mapped]
                       ELSE mapRelatedNodesToModel(rec.relatedNodes, T, mapped)
         IN  IF ~rec.hasN
             THEN recordLoop(T, records, i + 1, results)
             ELSE IF linked.err # ""
             THEN [err |-> linked.err, results |-> <<>>]
             ELSE recordLoop(T, records, i + 1, Append(results, linked.entity))

buildNodeTree(T, records) == recordLoop(T, records, 1, <<>>)

(***************************************************************************)
(* The records TreeSpec hands to buildNodeTree.                            *)
(***************************************************************************)
TreeRoots == {"User", "World"}
SomeProps == [name |-> "Ozia", username |-> "alice", userID |-> "7", id |-> "x9"]
N1      == Node("e1", <<"World", "User">>, SomeProps)
N2(T)   == Node("e2", <<T>>, [name |-> "Eldor"])
W1      == Node("e3", <<"World">>, [name |-> "Ozia"])
C1n     == Node("e4", <<"Continent">>, [name |-> "Avel"])
O1      == Node("e5", <<"Ocean">>, [name |-> "Mare"])
Gh      == Node("e6", <<"Ghost">>, [name |-> "Boo"])

RelatedLists ==
    SeqsUpTo({W1, C1n, O1}, 2) \cup {<<Gh>>, <<W1, Gh>>, <<NonNode, W1>>, <<N1>>}
TreeRecords(T) ==
    {Record(FALSE, NonNode, TRUE, <<>>)}
    \cup {Record(TRUE, n, TRUE, <<>>) : n \in {N1, N2(T)}}
    \cup {Record(TRUE, n, FALSE, l) : n \in {N1, N2(T)}, l \in RelatedLists}

NotBuilt == [err |-> "not built", results |-> <<>>]

BuildNodeTree ==
    /\ treeOut = NotBuilt
    /\ treeOut' = buildNodeTree(treeT, recordList)
    /\ UNCHANGED <<treeT, recordList>>

(***************************************************************************)
(* PopulateQuery.buildRelationships.  A relationship field is a sequence   *)
(* of pointers to E, a pointer to E, or an E by value: the kinds the      *)
(* walk follows.  schema maps a type name to its fields.                   *)
(***************************************************************************)
\* len(strings.Split(relTag, ",")) == 2, for a tag that is present
WellTagged(f) == f.rel # <<>> /\ Len(f.rel) = 2

\* relatedNodeLabel: Elem().Name(), Elem().Elem().Name() or Type.Name()
relatedNodeLabel(f) ==
    IF f.kind \in {"ptr", "slice_ptr", "struct"} THEN f.elem ELSE f.kind

\* fmt.Sprintf("(n)-[:%s]%s(r:%s)", relType, relDirection, relatedNodeLabel)
Path(f) ==
    [relType |-> f.rel[1], relDirection |-> f.rel[2], label |-> relatedNodeLabel(f)]

\* A walk that descends only while the remaining depth is above one.
recursesPositiveOnly(f, depth) ==
    depth > 1 /\ f.kind \in {"struct", "ptr", "slice_ptr"}

\* The three recursion branches: depth != 1 and a struct, a pointer to a
\* struct, or a slice of pointers to structs.
recurses(f, depth) ==
    depth # 1 /\ f.kind \in {"struct", "ptr", "slice_ptr"}

\* A recursion that hands the depth on undiminished.
nestedDepthSame(depth) == depth

\* A recursion that stops an unbounded walk two levels down.
nestedDepthCapped(depth) == IF depth < -1 THEN 1 ELSE depth - 1

\* q.buildRelationships(..., depth-1)
nestedDepth(depth) == depth - 1

\* Entry of a call: if depth == 0 { depth = -1 }; the field loop starts at 0.
Frame(T, depth) ==
    [type |-> T, depth |-> IF depth = 0 THEN -1 ELSE depth, i |-> 1]

Top == stack[Len(stack)]
TopField == relSchema[Top.type][Top.i]
InLoop == stack # <<>> /\ Top.i <= Len(relSchema[Top.type])
Advance == [stack EXCEPT ![Len(stack)].i = @ + 1]

\* relTag == "" or len(tagParts) != 2: continue
RelSkipField ==
    /\ InLoop
    /\ ~WellTagged(TopField)
    /\ stack' = Advance
    /\ UNCHANGED <<relSchema, relRoot, relDepth, paths, covered>>

\* paths = append(paths, path), and no branch of the recursion applies
RelAppendPath ==
    /\ InLoop
    /\ WellTagged(TopField)
    /\ ~recurses(TopField, Top.depth)
    /\ paths' = Append(paths, Path(TopField))
    /\ covered' = Append(covered, [type |-> Top.type, field |-> Top.i, level |-> Len(stack)])
    /\ stack' = Advance
    /\ UNCHANGED <<relSchema, relRoot, relDepth>>

\* paths = append(paths, path), then the nested call; the walk is cut when
\* the stack holds MaxStack frames.
RelRecurse ==
    /\ InLoop
    /\ WellTagged(TopField)
    /\ recurses(TopField, Top.depth)
    /\ Len(stack) < MaxStack
    /\ paths' = Append(paths, Path(TopField))
    /\ covered' = Append(covered, [type |-> Top.type, field |-> Top.i, level |-> Len(stack)])
    /\ stack' = Append(Advance, Frame(TopField.elem, nestedDepth(Top.depth)))
    /\ UNCHANGED <<relSchema, relRoot, relDepth>>

\* return paths: the caller appends them, which the shared paths already did
RelReturn ==
    /\ stack # <<>>
    /\ Top.i > Len(relSchema[Top.type])
    /\ stack' = SubSeq(stack, 1, Len(stack) - 1)
    /\ UNCHANGED <<relSchema, relRoot, relDepth, paths, covered>>

\* The same function as one expression, for the callers that need its
\* result at once (buildQuery).  It ends on every schema for a positive
\* depth, and for depth 0 on the schemas without a cycle.
RECURSIVE relLoop(_, _, _, _)
relLoop(schema, T, depth, i) ==
    IF i > Len(schema[T]) THEN <<>>
    ELSE LET f == schema[T][i]
             d == IF depth = 0 THEN -1 ELSE depth
         IN  IF ~WellTagged(f)
             THEN relLoop(schema, T, depth, i + 1)
             ELSE <<Path(f)>>
                  \o (IF recurses(f, d) THEN relLoop(schema, f.elem, nestedDepth(d), 1)
                      ELSE <<>>)
                  \o relLoop(schema, T, depth, i + 1)
buildRelationships(schema, T, depth) == relLoop(schema, T, depth, 1)

(***************************************************************************)
(* The schemas RelSpec walks: every schema over three types with up to two *)
(* relationship fields each, the repository's own types, and one schema    *)
(* with the other field kinds and a malformed tag.                         *)
(***************************************************************************)
AbstractShapes == {"A", "B", "C"}
RelLists == SeqsUpTo({Rel("R", "HAS", "->", s) : s \in AbstractShapes}, 2)
GeneratedSchemas == [AbstractShapes -> RelLists]
KindSchema ==
    [s \in AbstractShapes |->
        CASE s = "A" -> << Scalar("Name", "name", "string"),
                           F("One", "", <<"HAS", "->">>, "ptr", "B"),
                           F("Bad", "", <<"HAS">>, "slice_ptr", "C"),
                           F("In", "", <<"PART_OF", "<-">>, "struct", "C") >>
          [] s = "B" -> << Rel("Many", "IN", "<-", "C") >>
          [] s = "C" -> << Scalar("ID", "id", "string"),
                           F("Tag", "", <<"IS", "->">>, "string", "") >>]
RelInputs ==
    {[schema |-> sc, root |-> "A"] : sc \in GeneratedSchemas \cup {KindSchema}}
    \cup {[schema |-> RepoSchema, root |-> r] : r \in ShapeNames}

(***************************************************************************)
(* Find, FindAll and Populate on one base model b of type parameter baseT. *)
(* A descriptor holds whether its model / models pointer is set, and       *)
(* whether the entity it points to is the one that embeds b, as in         *)
(* world.Find(&world, ...).                                                *)
(***************************************************************************)
ZeroOptions == [Depth |-> 0, Limit |-> 0]
NoDescriptor ==
    [kind |-> "none", model |-> "nil", models |-> "nil", aliased |-> FALSE,
     field |-> "", value |-> "", options |-> ZeroOptions]
NoQuery ==
    [text |-> "none", label |-> "", field |-> "", relationships |-> <<>>,
     limit |-> 0, params |-> <<>>]

\* A Find that connects at once instead of deferring to Populate.
FindEager(modelRef, aliased, field, value) ==
    /\ q' = [kind |-> "query", model |-> modelRef, models |-> "nil",
             aliased |-> aliased, field |-> field, value |-> value,
             options |-> ZeroOptions]
    /\ lastOp' = "Find"
    /\ Label' = IF Label = "" THEN baseT ELSE Label
    /\ driver' = IF driver = "nil" THEN "open" ELSE driver
    /\ UNCHANGED <<baseT, sessionsOpened, model, models, err, mappedNodes, lastQuery>>

\* NeoBaseModel.Find: builds the descriptor and nothing else.
Find(modelRef, aliased, field, value) ==
    /\ q' = [kind |-> "query", model |-> modelRef, models |-> "nil",
             aliased |-> aliased, field |-> field, value |-> value,
             options |-> ZeroOptions]
    /\ lastOp' = "Find"
    /\ UNCHANGED <<baseT, Label, driver, sessionsOpened, model, models, err,
                   mappedNodes, lastQuery>>

\* NeoBaseModel.FindAll: the same with the models pointer.
FindAll(modelsRef, field, value) ==
    /\ q' = [kind |-> "query", model |-> "nil", models |-> modelsRef,
             aliased |-> FALSE, field |-> field, value |-> value,
             options |-> ZeroOptions]
    /\ lastOp' = "FindAll"
    /\ UNCHANGED <<baseT, Label, driver, sessionsOpened, model, models, err,
                   mappedNodes, lastQuery>>

\* initDriver: the label defaults to T's name; a nil driver is replaced by
\* NewDriver(), which fails when the environment or the server is not there.
initDriver(driverOk) ==
    [Label  |-> IF Label = "" THEN baseT ELSE Label,
     driver |-> IF driver = "nil" /\ driverOk THEN "open" ELSE driver,
     err    |-> IF driver = "nil" /\ ~driverOk
                THEN "failed to initialize Neo4j driver" ELSE ""]

\* buildQuery: reflect.TypeOf(*q.model) dereferences q.model, which FindAll
\* leaves nil; an empty label panics too.
buildQueryOf(d, label, options) ==
    IF label = "" \/ d.model = "nil"
    THEN [NoQuery EXCEPT !.text = "panic"]
    ELSE [text   |-> IF d.field = "elementID" THEN "MATCH (n:label) WHERE elementId(n) = $field"
                     ELSE "MATCH (n:label {field: $field})",
          label  |-> label,
          field  |-> d.field,
          relationships |-> buildRelationships(RepoSchema, baseT, options.Depth),
          limit  |-> IF options.Limit > 0 THEN options.Limit ELSE 0,
          params |-> <<d.field, d.value>>]
buildQuery(label, options) == buildQueryOf(q, label, options)

\* The read transaction: a session of a closed driver fails every call; on a
\* live one the engine rejects the query or answers with records.
QueryError == [err |-> "query error", records |-> <<>>]
executeRead(drv, answer) ==
    IF drv = "closed"
    THEN [err |-> "Trying to create session on closed driver", records |-> <<>>]
    ELSE answer

\* A single read that insists on exactly one root.
singleResultExactlyOne(built) ==
    IF built.err # "" THEN [err |-> built.err, assign |-> FALSE]
    ELSE IF Len(built.results) # 1 THEN [err |-> "no nodes found", assign |-> FALSE]
    ELSE [err |-> "ok", assign |-> TRUE]

\* The tail of executeSingle: the error of buildNodeTree, "no nodes found"
\* for an empty list, else *q.model = *mappedNodes[0].
singleResult(built) ==
    IF built.err # "" THEN [err |-> built.err, assign |-> FALSE]
    ELSE IF Len(built.results) = 0 THEN [err |-> "no nodes found", assign |-> FALSE]
    ELSE [err |-> "ok", assign |-> TRUE]

\* Both deferred calls have run when the handler returns: the session is
\* closed and so is the driver, which stays in b.driver.  A successful
\* executeSingle on the entity that embeds b overwrites b with new(T)'s.
executeSingle(options, driverOk, answer) ==
    LET init  == initDriver(driverOk)
        query == buildQuery(init.Label, options)
        read  == executeRead(init.driver, answer)
        built == IF read.err # "" THEN NotBuilt ELSE buildNodeTree(baseT, read.records)
        res   == IF read.err # "" THEN [err |-> read.err, assign |-> FALSE]
                 ELSE singleResult(built)
    IN  IF init.err # ""
        THEN /\ err' = init.err
             /\ Label' = init.Label
             /\ driver' = init.driver
             /\ mappedNodes' = NotBuilt
             /\ lastQuery' = NoQuery
             /\ UNCHANGED <<sessionsOpened, model, models>>
        ELSE /\ sessionsOpened' = sessionsOpened + 1
             /\ lastQuery' = query
             /\ mappedNodes' = built
             /\ err' = res.err
             /\ model' = IF res.assign THEN built.results[1] ELSE model
             /\ Label' = IF res.assign /\ q.aliased THEN "" ELSE init.Label
             /\ driver' = IF res.assign /\ q.aliased THEN "nil" ELSE "closed"
             /\ UNCHANGED models

\* executeMultiple: the same frame; buildQuery panics on the nil q.model
\* before any read, and the deferred calls run while the panic unwinds.
executeMultiple(options, driverOk, answer) ==
    LET init  == initDriver(driverOk)
        query == buildQuery(init.Label, options)
        read  == executeRead(init.driver, answer)
        built == IF read.err # "" THEN NotBuilt ELSE buildNodeTree(baseT, read.records)
    IN  IF init.err # ""
        THEN /\ err' = init.err
             /\ Label' = init.Label
             /\ driver' = init.driver
             /\ mappedNodes' = NotBuilt
             /\ lastQuery' = NoQuery
             /\ UNCHANGED <<sessionsOpened, model, models>>
        ELSE /\ sessionsOpened' = sessionsOpened + 1
             /\ lastQuery' = query
             /\ Label' = init.Label
             /\ driver' = "closed"
             /\ UNCHANGED model
             /\ IF query.text = "panic"
                THEN /\ err' = "panic: nil pointer dereference"
                     /\ mappedNodes' = NotBuilt
                     /\ UNCHANGED models
                ELSE /\ mappedNodes' = built
                     /\ err' = IF read.err # "" THEN read.err
                               ELSE IF built.err # "" THEN built.err
                               ELSE IF Len(built.results) = 0 THEN "no nodes found"
                               ELSE "ok"
                     /\ models' = IF err' = "ok" THEN built.results ELSE models

\* PopulateQuery.Populate
Populate(options, driverOk, answer) ==
    /\ q.kind = "query"
    /\ sessionsOpened < MaxCalls
    /\ q' = [q EXCEPT !.options = options]
    /\ lastOp' = "Populate"
    /\ UNCHANGED baseT
    /\ IF q.model # "nil" THEN executeSingle(options, driverOk, answer)
       ELSE IF q.models # "nil" THEN executeMultiple(options, driverOk, answer)
       ELSE /\ err' = "no model or models provided"
            /\ UNCHANGED <<Label, driver, sessionsOpened, model, models,
                           mappedNodes, lastQuery>>

(***************************************************************************)
(* What the callers and the engine may supply in Spec.  The query returns  *)
(* n with collect(r), so the records of one answer carry distinct n.       *)
(***************************************************************************)
OpRoots   == {"User", "World"}
OpFields  == {"name", "elementID"}
OpOptions == {[Depth |-> 0, Limit |-> 0], [Depth |-> 1, Limit |-> 0], [Depth |-> 2, Limit |-> 1]}
N3(T)     == Node("e7", <<T>>, [name |-> "Third"])
OpRecords(T) ==
    { Record(TRUE, N1, TRUE, <<>>), Record(TRUE, N2(T), FALSE, <<>>),
      Record(TRUE, N3(T), FALSE, <<Gh>>) }
DistinctRoots(records) ==
    \A i, j \in 1..Len(records) :
        i # j => records[i].n.ElementId # records[j].n.ElementId
DbAnswers(T) ==
    {[err |-> "", records |-> rs] :
        rs \in {l \in SeqsUpTo(OpRecords(T), MaxRecords) : DistinctRoots(l)}}
    \cup {QueryError}

(***************************************************************************)
(* The statements of Create and Update.  A statement is kept clause by     *)
(* clause: the label, the property assignments in the order written (each  *)
(* a property key and the name of its placeholder), the placeholder of the *)
(* match, the MERGE of the related node and the CREATE of the link, each   *)
(* a sequence of no or one element.  params is the parameter map; a second *)
(* assignment to a key replaces the first.                                 *)
(***************************************************************************)
NilValue == "<nil>"
EmptyOptions ==
    [Field |-> "", Value |-> NilValue, Label |-> "", Rel |-> "", RelDirection |-> ""]
NoParams == [k \in {} |-> ""]
\* params[k] = v
ParamPut(params, k, v) ==
    [x \in DOMAIN params \cup {k} |-> IF x = k THEN v ELSE params[x]]
Assign(key, param) == [key |-> key, param |-> param]
NoStmt ==
    [kind |-> "none", label |-> "", props |-> <<>>, matchField |-> "",
     matchParam |-> "", merge |-> <<>>, link |-> <<>>, params |-> NoParams]

\* The arguments of a call: the operation, the entity as it was handed in,
\* and the relation options or the match field, value and detach flag.
NoArgs ==
    [op |-> "none", entity |-> <<>>, options |-> EmptyOptions,
     field |-> "", value |-> "", detach |-> FALSE]

\* A link that always leaves the new node.
linkClauseOutOnly(rel, dir) ==
    IF dir \in {"->", "<-"} THEN <<[rel |-> rel, from |-> "n", to |-> "r"]>> ELSE <<>>

\* " CREATE (n)-[:Rel]->(r)" for "->", " CREATE (n)<-[:Rel]-(r)" for "<-",
\* nothing for any other direction.
linkClause(rel, dir) ==
    IF dir = "->" THEN <<[rel |-> rel, from |-> "n", to |-> "r"]>>
    ELSE IF dir = "<-" THEN <<[rel |-> rel, from |-> "r", to |-> "n"]>>
    ELSE <<>>

\* The tail shared by buildCreateQuery and buildUpdateQuery: with a field, a
\* value and a label the MERGE is written and relatedValue bound.
relationClauses(st, options) ==
    IF options.Field # "" /\ options.Value # NilValue /\ options.Label # ""
    THEN [st EXCEPT
            !.merge = <<[label |-> options.Label, field |-> options.Field,
                         param |-> "relatedValue"]>>,
            !.link = linkClause(options.Rel, options.RelDirection),
            !.params = ParamPut(st.params, "relatedValue", options.Value)]
    ELSE st

\* A test that lets the relationship fields through as well.
writtenOrRelated(f) == f.node # "" \/ f.rel # <<>>

\* if nodeTag == "" { continue }
written(f) == f.node # ""

\* The field loop of buildCreateQuery: one "tag: $tag" and params[tag] for
\* every field with a node tag.
RECURSIVE createLoop(_, _, _, _)
createLoop(T, entity, i, st) ==
    IF i > Len(FieldsOf(T)) THEN st
    ELSE LET f == FieldsOf(T)[i]
         IN  IF ~written(f)
             THEN createLoop(T, entity, i + 1, st)
             ELSE createLoop(T, entity, i + 1,
                     [st EXCEPT !.props = Append(@, Assign(f.node, f.node)),
                                !.params = ParamPut(@, f.node, entity[f.name])])

buildCreateQuery(T, label, entity, options) ==
    relationClauses(
        createLoop(T, entity, 1, [NoStmt EXCEPT !.kind = "create", !.label = label]),
        options)

\* A loop that rewrites the identifier like any other property.
rewrittenWithId(f) == f.node # ""

\* if nodeTag == "" { continue } ... if nodeTag == "id" { continue }
rewritten(f) == f.node # "" /\ f.node # "id"

\* The field loop of buildUpdateQuery: "n.tag = $tag" and params[tag] for
\* every field with a node tag other than "id".
RECURSIVE updateLoop(_, _, _, _)
updateLoop(T, entity, i, st) ==
    IF i > Len(FieldsOf(T)) THEN st
    ELSE LET f == FieldsOf(T)[i]
         IN  IF ~rewritten(f)
             THEN updateLoop(T, entity, i + 1, st)
             ELSE updateLoop(T, entity, i + 1,
                     [st EXCEPT !.props = Append(@, Assign(f.node, f.node)),
                                !.params = ParamPut(@, f.node, entity[f.name])])

\* MATCH (n:Label WHERE elementId(n) = $value), params["value"] = the ID
\* field, then the SET list and the relation clauses.  FieldByName("ID") of
\* a type without that field is the zero Value, whose Interface() panics.
buildUpdateQuery(T, label, entity, options) ==
    IF "ID" \notin DOMAIN entity
    THEN [NoStmt EXCEPT !.kind = "panic"]
    ELSE relationClauses(
            updateLoop(T, entity, 1,
                [NoStmt EXCEPT !.kind = "update", !.label = label,
                               !.matchField = "elementID", !.matchParam = "value",
                               !.params = ParamPut(NoParams, "value", entity.ID)]),
            options)

(***************************************************************************)
(* The graph engine, as far as the statements above exercise it.  A graph  *)
(* is a set of nodes and a list of relationships (two nodes may be linked  *)
(* more than once).  Each operator is one transaction: it returns the      *)
(* graph after commit, or the graph it started from together with an       *)
(* error.                                                                  *)
(***************************************************************************)
EmptyGraph == [nodes |-> {}, edges |-> <<>>]
IdNames == <<"n1", "n2", "n3", "n4", "n5", "n6">>
HasLabel(n, l) == \E i \in 1..Len(n.Labels) : n.Labels[i] = l
NodeIds(g) == {n.ElementId : n \in g.nodes}
NodeById(g, id) == CHOOSE n \in g.nodes : n.ElementId = id
Edge(a, rel, b) == [from |-> a, rel |-> rel, to |-> b]
Incident(g, id) == {k \in 1..Len(g.edges) : g.edges[k].from = id \/ g.edges[k].to = id}
\* The relationships of l that touch no node of dropIds, in their order.
RECURSIVE FilterEdges(_, _)
FilterEdges(l, dropIds) ==
    IF l = <<>> THEN <<>>
    ELSE IF Head(l).from \in dropIds \/ Head(l).to \in dropIds
         THEN FilterEdges(Tail(l), dropIds)
         ELSE <<Head(l)>> \o FilterEdges(Tail(l), dropIds)

\* MATCH (n:label {field: $v}), or MATCH (n:label) WHERE elementId(n) = $v
MatchProp(g, label, field, v) ==
    {n \in g.nodes : HasLabel(n, label) /\ field \in DOMAIN n.Props /\ n.Props[field] = v}
MatchId(g, label, v) ==
    {n \in g.nodes : HasLabel(n, label) /\ n.ElementId = v}

\* The property map a statement writes: key -> the value bound to its
\* placeholder (the last assignment of a key stands).
PropsOf(st) ==
    [k \in {st.props[i].key : i \in 1..Len(st.props)} |->
        LET last == CHOOSE i \in 1..Len(st.props) :
                        /\ st.props[i].key = k
                        /\ \A j \in 1..Len(st.props) : st.props[j].key = k => j <= i
        IN  st.params[st.props[last].param]]
\* SET n.key = $param for each assignment: the other properties stay.
SetProps(old, st) ==
    LET new == PropsOf(st)
    IN  [k \in DOMAIN old \cup DOMAIN new |-> IF k \in DOMAIN new THEN new[k] ELSE old[k]]

\* MERGE (r:label {field: $relatedValue}) for one row: the nodes that match,
\* or one new node with that label and property when none does.
MergeTargets(g, st, freshId) ==
    LET m == st.merge[1]
        hit == MatchProp(g, m.label, m.field, st.params[m.param])
    IN  IF hit # {} THEN hit
        ELSE {Node(freshId, <<m.label>>, [k \in {m.field} |-> st.params[m.param]])}

\* CREATE (n)-[:Rel]->(r) or CREATE (n)<-[:Rel]-(r), once per row (n, r).
RECURSIVE LinkRows(_, _, _)
LinkRows(st, nId, rIds) ==
    IF rIds = {} \/ st.link = <<>> THEN <<>>
    ELSE LET r == CHOOSE x \in rIds : TRUE
             l == st.link[1]
         IN  <<IF l.from = "n" THEN Edge(nId, l.rel, r) ELSE Edge(r, l.rel, nId)>>
             \o LinkRows(st, nId, rIds \ {r})

\* A relationship type must be named: "-[:]->" does not parse.
StmtParses(st) == st.link = <<>> \/ st.link[1].rel # ""

\* CREATE (n:Label {...}) [MERGE (r ...) [CREATE link]] RETURN n.  The new
\* node takes id1; a node the MERGE creates takes id2.
engineCreate(g, st, id1, id2) ==
    LET n  == Node(id1, <<st.label>>, PropsOf(st))
        g1 == [g EXCEPT !.nodes = @ \cup {n}]
        rs == IF st.merge = <<>> THEN {} ELSE MergeTargets(g1, st, id2)
    IN  IF ~StmtParses(st)
        THEN [err |-> "syntax error", graph |-> g, node |-> NonNode]
        ELSE [err |-> "",
              graph |-> [nodes |-> g1.nodes \cup rs,
                         edges |-> g.edges \o LinkRows(st, id1, {r.ElementId : r \in rs})],
              node |-> n]

\* A MERGE that runs whether or not a row reaches it.
mergeRunsAlways(st, hit) == st.merge # <<>>

\* A clause runs once per row that reaches it: the MERGE after a MATCH that
\* found nothing does not run.
mergeRuns(st, hit) == st.merge # <<>> /\ hit # {}

\* MATCH (n:Label WHERE elementId(n) = $value) SET ... [MERGE ... [CREATE
\* link]]: every clause runs once per matched row, so not at all when the
\* identifier matches no node.
engineUpdate(g, st, id2) ==
    LET hit == MatchId(g, st.label, st.params[st.matchParam])
        upd(n) == Node(n.ElementId, n.Labels, SetProps(n.Props, st))
        g1  == [g EXCEPT !.nodes = {IF n \in hit THEN upd(n) ELSE n : n \in g.nodes}]
        rs  == IF mergeRuns(st, hit) THEN MergeTargets(g1, st, id2) ELSE {}
        hitIds == {n.ElementId : n \in hit}
    IN  IF ~StmtParses(st) \/ st.props = <<>>
        THEN [err |-> "syntax error", graph |-> g]
        ELSE [err |-> "",
              graph |-> [nodes |-> g1.nodes \cup rs,
                         edges |-> g.edges \o
                            (IF hitIds = {} THEN <<>>
                             ELSE LinkRows(st, CHOOSE i \in hitIds : TRUE,
                                           {r.ElementId : r \in rs}))]]

\* The rows of Delete's read: MATCH (n:Label ...) RETURN n.
MatchFor(g, label, field, v) ==
    IF field = "elementID" THEN MatchId(g, label, v) ELSE MatchProp(g, label, field, v)

\* A delete that takes the relationships along whatever the flag says.
removableAlways(g, hit, detach) == TRUE

\* DELETE n fails at commit while n has a relationship; DETACH DELETE n
\* removes them with the node.
removable(g, hit, detach) ==
    detach \/ \A n \in hit : Incident(g, n.ElementId) = {}

\* A deletion that leaves the relationships of the deleted nodes behind.
remainingEdgesAll(l, dropIds) == l

\* The relationships left when the nodes of dropIds go with theirs.
remainingEdges(l, dropIds) == FilterEdges(l, dropIds)

\* MATCH (n:Label ...) [DETACH] DELETE n, for every node that matches.
engineDelete(g, label, field, v, detach) ==
    LET hit == MatchFor(g, label, field, v)
        hitIds == {n.ElementId : n \in hit}
    IN  IF ~removable(g, hit, detach)
        THEN [err |-> "Cannot delete node, because it still has relationships",
              graph |-> g]
        ELSE [err |-> "",
              graph |-> [nodes |-> g.nodes \ hit, edges |-> remainingEdges(g.edges, hitIds)]]

\* Every order of the elements of a set.
RECURSIVE Perms(_)
Perms(S) ==
    IF S = {} THEN {<<>>}
    ELSE UNION {{<<x>> \o p : p \in Perms(S \ {x})} : x \in S}

\* The nodes bound to r by OPTIONAL MATCH (n)-[:relType]->(r:label), one
\* per relationship.
RECURSIVE RelatedOf(_, _, _, _)
RelatedOf(g, id, p, k) ==
    IF k > Len(g.edges) THEN <<>>
    ELSE LET e == g.edges[k]
         IN  (IF e.from = id /\ e.rel = p.relType /\ HasLabel(NodeById(g, e.to), p.label)
              THEN <<NodeById(g, e.to)>> ELSE <<>>)
             \o RelatedOf(g, id, p, k + 1)

\* The read of Populate: MATCH (n ...) OPTIONAL MATCH ... RETURN n,
\* collect(r) as relatedNodes, for a query without LIMIT.  Every segment
\* names the same variable r, so the first one binds it and the later ones
\* cannot bind it again; a query without a segment returns an r that no
\* clause defines, and a direction other than "->" does not parse between
\* "]" and "(".  The rows are grouped by n and come in any order.
engineRead(g, query) ==
    IF query.relationships = <<>>
    THEN {[err |-> "variable r not defined", records |-> <<>>]}
    ELSE IF \E k \in 1..Len(query.relationships) :
                query.relationships[k].relDirection # "->"
    THEN {[err |-> "syntax error", records |-> <<>>]}
    ELSE LET roots == MatchFor(g, query.label, query.field, query.params[2])
             rec(n) == Record(TRUE, n, FALSE,
                              RelatedOf(g, n.ElementId, query.relationships[1], 1))
         IN  {[err |-> "", records |-> [i \in 1..Len(o) |-> rec(o[i])]] :
                 o \in Perms(roots)}

(***************************************************************************)
(* Create, Update and Delete against the graph.  Create and Update run one *)
(* write transaction; Delete runs a read and then a write transaction, so  *)
(* it is two steps, with the session open in between.                      *)
(***************************************************************************)
NoPc == [op |-> "idle", field |-> "", value |-> "", detach |-> FALSE, session |-> 0]
NoTx == [call |-> 0, session |-> 0, node |-> NonNode]
Tx(c, node) == [call |-> c, session |-> c, node |-> node]

\* What a transaction returns before the engine is asked: the session of a
\* closed driver fails every call, and the connection may be lost.
sessionErr(drv, txOk) ==
    IF drv = "closed" THEN "Trying to create session on closed driver"
    ELSE IF ~txOk THEN "connection error"
    ELSE ""

\* A return that leaves the session open.
afterDeferLeaky(open, session) == open

\* defer session.Close(ctx): the session is closed on every return.
afterDefer(open, session) == open \ {session}

\* NeoBaseModel.Create
Create(options, driverOk, txOk) ==
    LET init == initDriver(driverOk)
        st   == buildCreateQuery(baseT, init.Label, model, options)
        serr == sessionErr(init.driver, txOk)
        res  == engineCreate(graph, st, IdNames[ids + 1], IdNames[ids + 2])
        used == Cardinality(res.graph.nodes) - Cardinality(graph.nodes)
        c    == calls + 1
    IN  /\ pc = NoPc
        /\ calls < MaxOps
        /\ calls' = c
        /\ lastOp' = "Create"
        /\ call' = [NoArgs EXCEPT !.op = "Create", !.entity = model, !.options = options]
        /\ Label' = init.Label
        /\ UNCHANGED <<baseT, sessionsOpened, q, models, mappedNodes, lastQuery, pc>>
        /\ IF init.err # ""
           THEN /\ err' = init.err
                /\ driver' = init.driver
                /\ stmt' = NoStmt
                /\ UNCHANGED <<model, graph, ids, lastTx, openSessions>>
           ELSE /\ stmt' = st
                /\ driver' = "closed"
                /\ openSessions' = afterDefer(openSessions \cup {c}, c)
                /\ IF serr # "" \/ res.err # ""
                   THEN /\ err' = IF serr # "" THEN serr ELSE res.err
                        /\ lastTx' = Tx(c, NonNode)
                        /\ UNCHANGED <<model, graph, ids>>
                   ELSE /\ ids + used <= MaxNodes
                        /\ graph' = res.graph
                        /\ ids' = ids + used
                        /\ lastTx' = Tx(c, res.node)
                        /\ model' = mapNodeToModel(res.node, baseT, model)
                        /\ err' = "ok"

\* NeoBaseModel.Update: the driver is left as it is.
Update(options, driverOk, txOk) ==
    LET init == initDriver(driverOk)
        st   == buildUpdateQuery(baseT, init.Label, model, options)
        serr == sessionErr(init.driver, txOk)
        res  == engineUpdate(graph, st, IdNames[ids + 1])
        used == Cardinality(res.graph.nodes) - Cardinality(graph.nodes)
        c    == calls + 1
    IN  /\ pc = NoPc
        /\ calls < MaxOps
        /\ calls' = c
        /\ lastOp' = "Update"
        /\ call' = [NoArgs EXCEPT !.op = "Update", !.entity = model, !.options = options]
        /\ Label' = init.Label
        /\ driver' = init.driver
        /\ UNCHANGED <<baseT, sessionsOpened, q, model, models, mappedNodes, lastQuery, pc>>
        /\ IF init.err # ""
           THEN /\ err' = init.err
                /\ stmt' = NoStmt
                /\ UNCHANGED <<graph, ids, lastTx, openSessions>>
           ELSE /\ stmt' = st
                /\ openSessions' = afterDefer(openSessions \cup {c}, c)
                /\ lastTx' = Tx(c, NonNode)
                /\ IF serr # "" \/ res.err # ""
                   THEN /\ err' = IF serr # "" THEN serr ELSE res.err
                        /\ UNCHANGED <<graph, ids>>
                   ELSE /\ ids + used <= MaxNodes
                        /\ graph' = res.graph
                        /\ ids' = ids + used
                        /\ err' = "ok"

\* The statements of Delete: the retrieval and the deletion.
\* Statements with the value written into the text.
deleteStmtInline(kind, label, field, value) ==
    [NoStmt EXCEPT !.kind = kind, !.label = label, !.matchField = field,
                   !.matchParam = value,
                   !.params = ParamPut(NoParams, "value", value)]

deleteStmt(kind, label, field, value) ==
    [NoStmt EXCEPT !.kind = kind, !.label = label, !.matchField = field,
                   !.matchParam = "value",
                   !.params = ParamPut(NoParams, "value", value)]

\* A read-back that leaves the caller's entity alone.
readBackSkipped(node, T, entity) == entity

\* mapNodeToModel(node, model) on the node read back
readBack(node, T, entity) == mapNodeToModel(node, T, entity)

\* NeoBaseModel.Delete up to the end of its read transaction.  Every return
\* taken here closes the session and the driver; with a node read back the
\* handler goes on to the deletion.
DeleteRead(field, value, options, driverOk, txOk) ==
    LET init == initDriver(driverOk)
        serr == sessionErr(init.driver, txOk)
        hit  == MatchFor(graph, init.Label, field, value)
        c    == calls + 1
    IN  /\ pc = NoPc
        /\ calls < MaxOps
        /\ calls' = c
        /\ lastOp' = "Delete"
        /\ call' = [NoArgs EXCEPT !.op = "Delete", !.entity = model, !.field = field,
                                  !.value = value, !.detach = options.Detach]
        /\ Label' = init.Label
        /\ UNCHANGED <<baseT, sessionsOpened, q, models, mappedNodes, lastQuery, graph, ids>>
        /\ IF init.err # ""
           THEN /\ err' = init.err
                /\ driver' = init.driver
                /\ stmt' = NoStmt
                /\ UNCHANGED <<model, lastTx, openSessions, pc>>
           ELSE /\ stmt' = deleteStmt("retrieve", init.Label, field, value)
                /\ IF serr # "" \/ hit = {}
                   THEN /\ err' = IF serr # "" THEN serr ELSE "node not found for deletion"
                        /\ driver' = "closed"
                        /\ openSessions' = afterDefer(openSessions \cup {c}, c)
                        /\ lastTx' = Tx(c, NonNode)
                        /\ UNCHANGED <<model, pc>>
                   ELSE \E node \in hit :
                        /\ model' = readBack(node, baseT, model)
                        /\ lastTx' = Tx(c, node)
                        /\ err' = ""
                        /\ driver' = init.driver
                        /\ openSessions' = openSessions \cup {c}
                        /\ pc' = [op |-> "Delete", field |-> field, value |-> value,
                                  detach |-> options.Detach, session |-> c]

\* The rest of Delete: the deletion in a write transaction of the same
\* session, and the return.
DeleteWrite(txOk) ==
    LET serr == sessionErr(driver, txOk)
        res  == engineDelete(graph, Label, pc.field, pc.value, pc.detach)
    IN  /\ pc.op = "Delete"
        /\ stmt' = deleteStmt(IF pc.detach THEN "detach delete" ELSE "delete",
                              Label, pc.field, pc.value)
        /\ lastTx' = Tx(pc.session, NonNode)
        /\ err' = IF serr # "" THEN serr ELSE IF res.err # "" THEN res.err ELSE "ok"
        /\ graph' = IF serr # "" THEN graph ELSE res.graph
        /\ driver' = "closed"
        /\ openSessions' = afterDefer(openSessions, pc.session)
        /\ pc' = NoPc
        /\ UNCHANGED <<baseT, Label, sessionsOpened, q, model, models, lastOp,
                       mappedNodes, lastQuery, call, ids, calls>>

(***************************************************************************)
(* QueryBuilder.  A query string is held as the sequence of the fragments  *)
(* appended to it; a fragment "\nKEYWORD text" is the pair of the two.      *)
(***************************************************************************)
Fragment(keyword, text) == [keyword |-> keyword, text |-> text]

\* NewQueryBuilder()
NewQueryBuilder == [query |-> <<>>, returnClause |-> "", params |-> NoParams]
NotBuiltQuery == [built |-> FALSE, query |-> <<>>, params |-> NoParams]

\* The method called, for the history.
QbCall(method, a, b) == [method |-> method, a |-> a, b |-> b]

\* qb.query += fmt.Sprintf("\nKEYWORD %s", clause)
qbAppend(keyword, clause) ==
    /\ qb' = [qb EXCEPT !.query = Append(@, Fragment(keyword, clause))]
    /\ qbLog' = Append(qbLog, QbCall(keyword, clause, ""))
    /\ UNCHANGED qbOut

With(param)           == qbAppend("WITH", param)
Match(clause)         == qbAppend("MATCH", clause)
QbCreate(clause)      == qbAppend("CREATE", clause)
OptionalMatch(clause) == qbAppend("OPTIONAL MATCH", clause)

\* qb.returnClause = returnClause
Return(returnClause) ==
    /\ qb' = [qb EXCEPT !.returnClause = returnClause]
    /\ qbLog' = Append(qbLog, QbCall("RETURN", returnClause, ""))
    /\ UNCHANGED qbOut

\* qb.params[key] = value
WithParam(key, value) ==
    /\ qb' = [qb EXCEPT !.params = ParamPut(@, key, value)]
    /\ qbLog' = Append(qbLog, QbCall("param", key, value))
    /\ UNCHANGED qbOut

\* QueryBuilder.Build
Build ==
    /\ qbOut' = [built |-> TRUE,
                 query |-> qb.query \o <<Fragment("RETURN", qb.returnClause)>>,
                 params |-> qb.params]
    /\ UNCHANGED <<qb, qbLog>>

(***************************************************************************)
(* Router and Mux.  A path is the sequence of its segments between the     *)
(* slashes, a segment the pair of its text and of whether it starts with   *)
(* a colon; a raw query is the sequence of its parts between the           *)
(* ampersands, each part the sequence of its pieces between the equals     *)
(* signs.  Middleware and handlers are known by name.                      *)
(***************************************************************************)
Lit(text)  == [colon |-> FALSE, text |-> text]
Par(name)  == [colon |-> TRUE, text |-> name]
NoMap      == [k \in {} |-> ""]
NoHandler  == [reg |-> 0]

\* newContext()
newContext == [PathParams |-> NoMap, QueryParams |-> NoMap]

\* Context.GetPathParam, Context.GetQueryParam: the zero string for a key
\* the map does not hold.
GetPathParam(c, key)  == IF key \in DOMAIN c.PathParams THEN c.PathParams[key] ELSE ""
GetQueryParam(c, key) == IF key \in DOMAIN c.QueryParams THEN c.QueryParams[key] ELSE ""

\* NewRouter(), newMux()
NewRouter == [middleware |-> <<>>]
newMux ==
    [routes |-> [m \in {} |-> NoMap], RouterMiddleware |-> <<>>,
     RouteMiddleware |-> [p \in {} |-> <<>>]]

MapPut(f, k, v) == [x \in DOMAIN f \cup {k} |-> IF x = k THEN v ELSE f[x]]

\* m.RouteMiddleware[path]: the key the middleware of a route is kept under.
routeKey(method, path) == path

\* Mux.handle
handle(m, method, path, handler, middleware) ==
    LET old  == IF method \in DOMAIN m.routes THEN m.routes[method] ELSE NoMap
        key  == routeKey(method, path)
        kept == IF key \in DOMAIN m.RouteMiddleware THEN m.RouteMiddleware[key] ELSE <<>>
    IN  [m EXCEPT !.routes = MapPut(@, method, MapPut(old, path, handler)),
                  !.RouteMiddleware = MapPut(@, key, kept \o middleware)]

\* Mux.getQueryParams: nil for the empty query; parts[1] of a part without
\* an equals sign is out of range.
RECURSIVE queryLoop(_, _, _)
queryLoop(query, i, params) ==
    IF i > Len(query) THEN [panic |-> FALSE, params |-> params]
    ELSE IF Len(query[i]) < 2 THEN [panic |-> TRUE, params |-> params]
    ELSE queryLoop(query, i + 1, MapPut(params, query[i][1], query[i][2]))
getQueryParams(query) ==
    IF query = <<>> THEN [panic |-> FALSE, params |-> NoMap]
    ELSE queryLoop(query, 1, NoMap)

\* Mux.matchPath
RECURSIVE pathLoop(_, _, _, _)
pathLoop(routeParts, requestParts, i, params) ==
    IF i > Len(routeParts) THEN [ok |-> TRUE, params |-> params]
    ELSE IF routeParts[i].colon
         THEN pathLoop(routeParts, requestParts, i + 1,
                       MapPut(params, routeParts[i].text, requestParts[i]))
         ELSE IF routeParts[i] # requestParts[i] THEN [ok |-> FALSE, params |-> NoMap]
         ELSE pathLoop(routeParts, requestParts, i + 1, params)
matchPath(requestPath, routePath) ==
    IF Len(routePath) # Len(requestPath) THEN [ok |-> FALSE, params |-> NoMap]
    ELSE pathLoop(routePath, requestPath, 1, NoMap)

NoMatch == [handler |-> NoHandler, context |-> newContext, route |-> <<>>, panic |-> FALSE]

\* The Context of a request whose path is itself a registered route.
literalContext(r) == newContext

\* Mux.matchRoute: the results it can return; the routes of a map are
\* ranged over in no fixed order, so any matching pattern can be the one.
matchRoute(r, routes) ==
    IF r.path \in DOMAIN routes
    THEN {[handler |-> routes[r.path], context |-> literalContext(r), route |-> r.path,
           panic |-> FALSE]}
    ELSE LET hits == {rp \in DOMAIN routes : matchPath(r.path, rp).ok}
             qp   == getQueryParams(r.query)
         IN  IF hits = {} THEN {NoMatch}
             ELSE {[handler |-> routes[rp],
                    context |-> [PathParams |-> matchPath(r.path, rp).params,
                                 QueryParams |-> qp.params],
                    route |-> rp, panic |-> qp.panic] : rp \in hits}

Ran(kind, name) == [kind |-> kind, name |-> name]
RECURSIVE RunAll(_, _)
RunAll(kind, middleware) ==
    IF middleware = <<>> THEN <<>>
    ELSE <<Ran(kind, middleware[1])>> \o RunAll(kind, Tail(middleware))

NoRequest == [method |-> "", path |-> <<>>, query |-> <<>>]
NotServed == [status |-> "none", trace |-> <<>>, route |-> <<>>, context |-> newContext]

\* A Use that keeps the middleware in the Router and never tells the Mux.
UseDetached(m) ==
    /\ router' = [router EXCEPT !.middleware = Append(@, m)]
    /\ regLog' = Append(regLog, [call |-> "Use", name |-> m])
    /\ req' = NoRequest
    /\ served' = NotServed
    /\ UNCHANGED mux

\* Router.Use
Use(m) ==
    /\ router' = [router EXCEPT !.middleware = Append(@, m)]
    /\ mux' = [mux EXCEPT !.RouterMiddleware = Append(router.middleware, m)]
    /\ regLog' = Append(regLog, [call |-> "Use", name |-> m])
    /\ req' = NoRequest
    /\ served' = NotServed

\* Router.Handle; the handler is named by the call that registered it.
Handle(method, path, middleware) ==
    LET handler == [reg |-> Len(regLog) + 1]
    IN  /\ mux' = handle(mux, method, path, handler, middleware)
        /\ regLog' = Append(regLog, [call |-> "Handle", method |-> method, path |-> path,
                                     handler |-> handler, middleware |-> middleware])
        /\ req' = NoRequest
        /\ served' = NotServed
        /\ UNCHANGED router

\* Mux.ServeHTTP
ServeHTTP(r) ==
    LET before == RunAll("router", mux.RouterMiddleware)
    IN  /\ req' = r
        /\ UNCHANGED <<router, mux, regLog>>
        /\ IF r.method \notin DOMAIN mux.routes
           THEN served' = [NotServed EXCEPT !.status = "not found", !.trace = before]
           ELSE \E hit \in matchRoute(r, mux.routes[r.method]) :
                  IF hit.panic
                  THEN served' = [NotServed EXCEPT !.status = "panic", !.trace = before]
                  ELSE IF hit.handler = NoHandler
                  THEN served' = [NotServed EXCEPT !.status = "not found", !.trace = before]
                  ELSE served' =
                         [status  |-> "handled",
                          trace   |-> before
                                        \o RunAll("route",
                                              mux.RouteMiddleware[routeKey(r.method, hit.route)])
                                        \o <<Ran("handler", hit.handler)>>,
                          route   |-> hit.route,
                          context |-> hit.context]

(***************************************************************************)
(* Values of the variables a specification does not use.                   *)
(***************************************************************************)
WebIdle ==
    /\ qb = NewQueryBuilder
    /\ qbLog = <<>>
    /\ qbOut = NotBuiltQuery
    /\ router = NewRouter
    /\ mux = newMux
    /\ regLog = <<>>
    /\ req = NoRequest
    /\ served = NotServed
RegIdle ==
    /\ modelRegistry = MainRegistry
    /\ halted = FALSE
    /\ regCall = NoCall
    /\ resolveCall = NoResolve
TreeIdle ==
    /\ treeT = "User"
    /\ recordList = <<>>
    /\ treeOut = NotBuilt
RelIdle ==
    /\ relSchema = RepoSchema
    /\ relRoot = "User"
    /\ relDepth = 0
    /\ stack = <<>>
    /\ paths = <<>>
    /\ covered = <<>>
WriteIdle ==
    /\ stmt = NoStmt
    /\ call = NoArgs
    /\ graph = EmptyGraph
    /\ ids = 0
    /\ calls = 0
    /\ openSessions = {}
    /\ lastTx = NoTx
    /\ pc = NoPc
OpIdle ==
    /\ baseT = "User"
    /\ Label = ""
    /\ driver = "nil"
    /\ sessionsOpened = 0
    /\ q = NoDescriptor
    /\ model = ZeroEntity("User")
    /\ models = <<>>
    /\ err = ""
    /\ lastOp = "none"
    /\ mappedNodes = NotBuilt
    /\ lastQuery = NoQuery

(***************************************************************************)
(* RegSpec: the registry from empty, any registration, any label list.     *)
(***************************************************************************)
RegInit ==
    /\ modelRegistry = [l \in {} |-> NoType]
    /\ halted = FALSE
    /\ regCall = NoCall
    /\ resolveCall = NoResolve
    /\ TreeIdle /\ RelIdle /\ OpIdle /\ WriteIdle /\ WebIdle

RegRegister ==
    \E modelName \in RegNames, mt \in ModelArgs :
        /\ RegisterModel(modelName, mt)
        /\ UNCHANGED <<treeVars, relVars, opVars, writeVars, webVars>>
RegResolve ==
    \E labels \in SeqsUpTo(LabelNames, MaxLabels) :
        /\ ResolveType(labels)
        /\ UNCHANGED <<treeVars, relVars, opVars, writeVars, webVars>>
RegNext == RegRegister \/ RegResolve
RegSpec == RegInit /\ [][RegNext]_vars

(***************************************************************************)
(* TreeSpec: buildNodeTree on every record list within the bounds, with    *)
(* the registry main sets up.                                              *)
(***************************************************************************)
TreeInit ==
    /\ treeT \in TreeRoots
    /\ recordList \in SeqsUpTo(TreeRecords(treeT), MaxRecords)
    /\ treeOut = NotBuilt
    /\ RegIdle /\ RelIdle /\ OpIdle /\ WriteIdle /\ WebIdle

TreeBuild == BuildNodeTree /\ UNCHANGED <<regVars, relVars, opVars, writeVars, webVars>>
TreeNext == TreeBuild
TreeSpec == TreeInit /\ [][TreeNext]_vars

(***************************************************************************)
(* Claims about buildNodeTree (TreeSpec).                                  *)
(***************************************************************************)
RelNames(T) == {FieldsOf(T)[i].name : i \in {j \in FieldIdx(T) : FieldsOf(T)[j].rel # <<>>}}
Built == treeOut # NotBuilt /\ treeOut.err = ""

\* The identifiers of the nodes carried by the records, in any column.
SightedIds ==
    {recordList[k].n.ElementId : k \in {i \in 1..Len(recordList) : recordList[i].hasN}}
    \cup UNION {{recordList[k].relatedNodes[j].ElementId :
                   j \in {i \in 1..Len(recordList[k].relatedNodes) :
                            recordList[k].relatedNodes[i].isNode}} :
                k \in {i \in 1..Len(recordList) :
                         recordList[i].hasN /\ ~recordList[i].relNil}}

\* How many entities of the output, roots and children, carry identifier id.
EntityCount(id) ==
    Cardinality({k \in 1..Len(treeOut.results) : treeOut.results[k].ID = id})
    + Cardinality({x \in (1..Len(treeOut.results)) \X RelNames(treeT) \X (1..2) :
                     /\ x[3] <= Len(treeOut.results[x[1]][x[2]])
                     /\ treeOut.results[x[1]][x[2]][x[3]].ID = id})

\* C1: the output of buildNodeTree holds exactly one reconstructed entity for
\* every distinct node identifier the records carry, in whatever record or
\* column the node was sighted.
OneEntityPerIdentifier ==
    Built => \A id \in SightedIds : EntityCount(id) = 1

\* How often child identifier c occurs among the children of entity e.
ChildCount(e, c) ==
    Cardinality({x \in RelNames(treeT) \X (1..2) :
                     x[2] <= Len(e[x[1]]) /\ e[x[1]][x[2]].ID = c})

\* C2: when records link parent P to child C, the reconstructed P holds C
\* exactly once among its children, and handing in a record already seen
\* once more leaves the result as it was.
ChildLinkedOnce ==
    Built =>
        /\ \A k \in 1..Len(recordList) :
             LET rec == recordList[k]
             IN  (rec.hasN /\ ~rec.relNil) =>
                     \A j \in 1..Len(rec.relatedNodes) :
                         rec.relatedNodes[j].isNode =>
                             \A r \in 1..Len(treeOut.results) :
                                 treeOut.results[r].ID = rec.n.ElementId =>
                                     ChildCount(treeOut.results[r],
                                                rec.relatedNodes[j].ElementId) = 1
        /\ \A k \in 1..Len(recordList) :
             LET rec == recordList[k]
             IN  (rec.hasN /\ ~rec.relNil
                    /\ \E j \in 1..Len(rec.relatedNodes) : rec.relatedNodes[j].isNode) =>
                     buildNodeTree(treeT, Append(recordList, rec)) = treeOut

\* The identifiers of the related nodes of a record whose label resolves to
\* the target type of relationship field f, in the record's order.
RECURSIVE MatchingIds(_, _, _)
MatchingIds(f, relatedNodes, j) ==
    IF j > Len(relatedNodes) THEN <<>>
    ELSE LET v == relatedNodes[j]
             rest == MatchingIds(f, relatedNodes, j + 1)
         IN  IF v.isNode /\ resolveTypeFromLabels(v.Labels).typ = expectedType(f)
             THEN <<v.ElementId>> \o rest
             ELSE rest
IdsOf(slice) == [j \in 1..Len(slice) |-> slice[j].ID]

AllRegistered ==
    \A k \in 1..Len(recordList) :
        /\ recordList[k].hasN
        /\ \A j \in 1..Len(recordList[k].relatedNodes) :
             LET v == recordList[k].relatedNodes[j]
             IN  v.isNode => resolveTypeFromLabels(v.Labels).err = ""

\* C3: on a type with several relationship fields the mapping succeeds, and
\* each relationship field receives exactly the related nodes whose label
\* matches its target; nodes of another registered label are left out.
RelFieldsFiltered ==
    (treeOut # NotBuilt /\ Cardinality(RelNames(treeT)) > 1 /\ AllRegistered) =>
        /\ treeOut.err = ""
        /\ Len(treeOut.results) = Len(recordList)
        /\ \A k \in 1..Len(recordList) :
             \A fn \in RelNames(treeT) :
                 IdsOf(treeOut.results[k][fn]) =
                     IF recordList[k].relNil THEN <<>>
                     ELSE MatchingIds(FieldByName(treeT, fn),
                                      recordList[k].relatedNodes, 1)

(***************************************************************************)
(* Claims about the registry (RegSpec).                                    *)
(***************************************************************************)
RegisteredAt(labels) == {i \in 1..Len(labels) : labels[i] \in DOMAIN modelRegistry}

\* C8: resolveTypeFromLabels returns the type registered under the first
\* label, in the node's own order, that is registered, whatever else the
\* list holds, and fails with an unknown-label error exactly when no label
\* of the node is registered.
ResolveFirstRegistered ==
    resolveCall # NoResolve =>
        LET labels == resolveCall.labels
            hits == RegisteredAt(labels)
        IN  /\ (hits = {}) <=> (resolveCall.result.err = "unknown label")
            /\ hits # {} =>
                 \E i \in hits :
                     /\ \A j \in hits : i <= j
                     /\ resolveCall.result = [err |-> "", typ |-> modelRegistry[labels[i]]]

\* C8 witness: both labels of the node are registered, under different
\* types, and the first one's type was returned.
ResolveFirstRegisteredWitness ==
    /\ resolveCall # NoResolve
    /\ Len(resolveCall.labels) = 2
    /\ RegisteredAt(resolveCall.labels) = {1, 2}
    /\ modelRegistry[resolveCall.labels[1]] # modelRegistry[resolveCall.labels[2]]
    /\ resolveCall.result.typ = modelRegistry[resolveCall.labels[1]]

\* C9: RegisterModel fails fatally and stores nothing whenever its argument
\* is not a pointer to a struct, so the registry only ever holds struct types.
RegisterRejectsNonStruct ==
    /\ (regCall # NoCall /\ ~IsPtrToStruct(regCall.model)) => halted
    /\ \A l \in DOMAIN modelRegistry : modelRegistry[l].kind = "struct"

(***************************************************************************)
(* RelSpec: buildRelationships(root, Depth) on every input schema.         *)
(***************************************************************************)
RelInit ==
    /\ \E inp \in RelInputs : relSchema = inp.schema /\ relRoot = inp.root
    /\ relDepth \in 0..MaxDepth
    /\ stack = <<Frame(relRoot, relDepth)>>
    /\ paths = <<>>
    /\ covered = <<>>
    /\ RegIdle /\ TreeIdle /\ OpIdle /\ WriteIdle /\ WebIdle

RelSkip    == RelSkipField /\ UNCHANGED <<regVars, treeVars, opVars, writeVars, webVars>>
RelAppend  == RelAppendPath /\ UNCHANGED <<regVars, treeVars, opVars, writeVars, webVars>>
RelDescend == RelRecurse /\ UNCHANGED <<regVars, treeVars, opVars, writeVars, webVars>>
RelRet     == RelReturn /\ UNCHANGED <<regVars, treeVars, opVars, writeVars, webVars>>
RelNext == RelSkip \/ RelAppend \/ RelDescend \/ RelRet
RelSpec == RelInit /\ [][RelNext]_vars

(***************************************************************************)
(* Claims about the relationship-field walk (RelSpec).                     *)
(***************************************************************************)
\* The relationship fields a type declares, and the types they lead to.
RelFieldsAt(s) == {i \in 1..Len(relSchema[s]) : WellTagged(relSchema[s][i])}
RelTargets(s) ==
    {relSchema[s][i].elem : i \in {j \in RelFieldsAt(s) : relSchema[s][j].elem \in DOMAIN relSchema}}
\* The types exactly n relationship hops from the root type.
RECURSIVE ShapesAt(_)
ShapesAt(n) ==
    IF n = 0 THEN {relRoot} ELSE UNION {RelTargets(s) : s \in ShapesAt(n - 1)}
Reachable == UNION {ShapesAt(n) : n \in 0..Cardinality(DOMAIN relSchema)}
WalkDone == stack = <<>>
SegmentsMatchFields ==
    /\ Len(paths) = Len(covered)
    /\ \A k \in 1..Len(covered) :
         paths[k] = Path(relSchema[covered[k].type][covered[k].field])

\* C4: for a positive depth D the traversal segments cover only relationship
\* fields declared at most D levels from the root type; with depth 1 they are
\* exactly the root type's own relationship fields.
DepthBoundsWalk ==
    relDepth > 0 =>
        /\ SegmentsMatchFields
        /\ \A k \in 1..Len(covered) :
             /\ covered[k].level <= relDepth
             /\ covered[k].type \in ShapesAt(covered[k].level - 1)
        /\ (relDepth = 1 /\ WalkDone) =>
             /\ \A k \in 1..Len(covered) : covered[k].type = relRoot
             /\ {covered[k].field : k \in 1..Len(covered)} = RelFieldsAt(relRoot)
             /\ Len(covered) = Cardinality(RelFieldsAt(relRoot))

\* C4 witness: a finished walk of depth 2 that covered fields of the second
\* level while a type of the third level declares relationships of its own.
DepthBoundsWalkWitness ==
    /\ relDepth = 2
    /\ WalkDone
    /\ \E k \in 1..Len(covered) : covered[k].level = 2
    /\ \E s \in ShapesAt(2) : RelFieldsAt(s) # {}

\* C5: with depth 0 a finished walk has requested every relationship field
\* declared on every type reachable from the root type.
UnboundedCoversAll ==
    (relDepth = 0 /\ WalkDone) =>
        /\ SegmentsMatchFields
        /\ \A s \in Reachable : \A i \in RelFieldsAt(s) :
             \E k \in 1..Len(covered) : covered[k].type = s /\ covered[k].field = i

\* C5 witness: a finished walk of depth 0 over the repository's types from
\* User, which covered a field four levels down.
UnboundedCoversAllWitness ==
    /\ relDepth = 0
    /\ WalkDone
    /\ relSchema = RepoSchema
    /\ relRoot = "User"
    /\ \E k \in 1..Len(covered) : covered[k].level = 4

\* The step-wise walk and the expression agree on the segments.
WalkAgrees ==
    WalkDone => paths = buildRelationships(relSchema, relRoot, relDepth)

(***************************************************************************)
(* Spec: reads through one base model, with the registry main sets up.     *)
(***************************************************************************)
Init ==
    /\ baseT \in OpRoots
    /\ Label = ""
    /\ driver = "nil"
    /\ sessionsOpened = 0
    /\ q = NoDescriptor
    /\ model = ZeroEntity(baseT)
    /\ models = <<>>
    /\ err = ""
    /\ lastOp = "none"
    /\ mappedNodes = NotBuilt
    /\ lastQuery = NoQuery
    /\ RegIdle /\ TreeIdle /\ RelIdle /\ WriteIdle /\ WebIdle

DoFind ==
    \E modelRef \in {"nil", "ref"}, aliased \in BOOLEAN, field \in OpFields :
        /\ (modelRef = "nil" => ~aliased)
        /\ Find(modelRef, aliased, field, "Ozia")
        /\ UNCHANGED <<regVars, treeVars, relVars, writeVars, webVars>>
DoFindAll ==
    \E modelsRef \in {"nil", "ref"}, field \in OpFields :
        /\ FindAll(modelsRef, field, "Ozia")
        /\ UNCHANGED <<regVars, treeVars, relVars, writeVars, webVars>>
\* NewDriver is called only for a nil driver, and the engine is asked only
\* through a driver that is not closed.
DoPopulate ==
    \E options \in OpOptions,
       driverOk \in (IF driver = "nil" THEN BOOLEAN ELSE {TRUE}),
       answer \in (IF driver = "closed" THEN {QueryError} ELSE DbAnswers(baseT)) :
        /\ Populate(options, driverOk, answer)
        /\ UNCHANGED <<regVars, treeVars, relVars, writeVars, webVars>>
Next == DoFind \/ DoFindAll \/ DoPopulate
Spec == Init /\ [][Next]_vars

(***************************************************************************)
(* Claims checked under Spec.                                              *)
(***************************************************************************)
\* Populate has just run on a descriptor of Find / of FindAll.
SinglePopulated   == lastOp = "Populate" /\ q.model # "nil"
MultiplePopulated == lastOp = "Populate" /\ q.model = "nil" /\ q.models # "nil"
\* Reconstruction ran and returned its list of typed roots.
RootsBuilt == mappedNodes # NotBuilt /\ mappedNodes.err = ""
RootCount  == Len(mappedNodes.results)

\* C6: Populate on a descriptor of Find succeeds if and only if
\* reconstruction yields exactly one typed root; with no root and with two
\* or more roots it fails with the not-found error.
FindSucceedsIffExactlyOneRoot ==
    (SinglePopulated /\ RootsBuilt) =>
        /\ err = "ok" <=> RootCount = 1
        /\ RootCount # 1 => err = "no nodes found"

\* C6: Populate on a descriptor of Find succeeds if and only if
\* reconstruction yields at least one typed root, and the caller's entity is
\* then the first root; with no root it fails with "no nodes found".
FindSucceedsIffSomeRoot ==
    SinglePopulated =>
        /\ err = "ok" <=> (RootsBuilt /\ RootCount >= 1)
        /\ err = "ok" => model = mappedNodes.results[1]
        /\ (RootsBuilt /\ RootCount = 0) => err = "no nodes found"
FindSucceedsIffSomeRootWitness ==
    /\ SinglePopulated /\ RootsBuilt /\ RootCount = 2
    /\ err = "ok"
    /\ model = mappedNodes.results[1]
    /\ model # mappedNodes.results[2]

\* Failures that come from the driver, the engine or the mapping.
EnvironmentErrors ==
    {"failed to initialize Neo4j driver", "query error",
     "Trying to create session on closed driver"}
    \cup (IF mappedNodes # NotBuilt /\ mappedNodes.err # "" THEN {mappedNodes.err} ELSE {})

\* C7: Populate on a descriptor of FindAll accepts any number of typed
\* roots: unless the driver, the engine or the mapping fails, it succeeds
\* with the caller's sequence set to exactly the roots found, the empty
\* sequence included.
FindAllAcceptsAnyNumber ==
    (MultiplePopulated /\ err \notin EnvironmentErrors) =>
        /\ err = "ok"
        /\ RootsBuilt
        /\ models = mappedNodes.results

\* C10: Find and FindAll only build the descriptor: a step of either leaves
\* the label, the driver, the session count, the caller's entity and
\* sequence and the last results as they were, so the driver and the
\* session count move only in a step of Populate.
FindIsLazy ==
    [][ /\ lastOp' \in {"Find", "FindAll"} =>
            UNCHANGED <<Label, driver, sessionsOpened, model, models, err,
                        mappedNodes, lastQuery>>
        /\ (driver' # driver \/ sessionsOpened' # sessionsOpened) =>
            lastOp' = "Populate" ]_vars
FindIsLazyWitness ==
    /\ lastOp = "Find" /\ q.kind = "query" /\ q.model = "ref"
    /\ driver = "nil" /\ sessionsOpened = 0 /\ Label = ""
    /\ model = ZeroEntity(baseT)

(***************************************************************************)
(* StmtSpec: buildCreateQuery and buildUpdateQuery on every entity type of *)
(* the repository, for a zero and a filled entity and every combination of *)
(* relation options.                                                       *)
(***************************************************************************)
FieldValues == <<"v1", "v2", "v3", "v4", "v5", "v6", "v7", "v8">>
\* An entity whose scalar fields all differ.
Filled(T) ==
    [fn \in FieldNames(T) |->
        LET i == CHOOSE j \in FieldIdx(T) : FieldsOf(T)[j].name = fn
        IN  IF FieldsOf(T)[i].node # "" THEN FieldValues[i] ELSE <<>>]
StmtEntities(T) == {ZeroEntity(T), Filled(T)}
RelationOptions ==
    [Field : {"", "userID"}, Value : {NilValue, "7"}, Label : {"", "User"},
     Rel : {"", "OWNS"}, RelDirection : {"", "->", "<-", "--"}]

StmtInit ==
    /\ baseT \in ShapeNames
    /\ Label = baseT
    /\ model \in StmtEntities(baseT)
    /\ driver = "open"
    /\ sessionsOpened = 0
    /\ q = NoDescriptor
    /\ models = <<>>
    /\ err = ""
    /\ lastOp = "none"
    /\ mappedNodes = NotBuilt
    /\ lastQuery = NoQuery
    /\ WriteIdle /\ WebIdle
    /\ RegIdle /\ TreeIdle /\ RelIdle

ComposeCreate ==
    \E options \in RelationOptions :
        /\ stmt' = buildCreateQuery(baseT, Label, model, options)
        /\ call' = [NoArgs EXCEPT !.op = "Create", !.entity = model, !.options = options]
        /\ UNCHANGED <<regVars, treeVars, relVars, opVars, graphVars, webVars>>
ComposeUpdate ==
    \E options \in RelationOptions :
        /\ stmt' = buildUpdateQuery(baseT, Label, model, options)
        /\ call' = [NoArgs EXCEPT !.op = "Update", !.entity = model, !.options = options]
        /\ UNCHANGED <<regVars, treeVars, relVars, opVars, graphVars, webVars>>
StmtNext == ComposeCreate \/ ComposeUpdate
StmtSpec == StmtInit /\ [][StmtNext]_vars

(***************************************************************************)
(* Claims about the composed statements (StmtSpec).                        *)
(***************************************************************************)
\* The fields of T with a node tag, and their tags.
ScalarIdx(T) == {i \in FieldIdx(T) : FieldsOf(T)[i].node # ""}
ScalarTags(T) == {FieldsOf(T)[i].node : i \in ScalarIdx(T)}
AssignedKeys == {stmt.props[k].key : k \in 1..Len(stmt.props)}
\* Field i of the entity has exactly one assignment, through a placeholder
\* bound to the field's value at the call.
AssignedOnce(T, i) ==
    LET f == FieldsOf(T)[i]
        ks == {k \in 1..Len(stmt.props) : stmt.props[k].key = f.node}
    IN  /\ Cardinality(ks) = 1
        /\ \A k \in ks :
              /\ stmt.props[k].param \in DOMAIN stmt.params
              /\ stmt.params[stmt.props[k].param] = call.entity[f.name]

FullyNamed(o) ==
    /\ o.Field # "" /\ o.Value # NilValue /\ o.Label # "" /\ o.Rel # ""
    /\ o.RelDirection \in {"->", "<-"}

\* C12: when the relation options of Create name a field, a value, a label,
\* a relationship type and a direction, the statement merges the related
\* node on that label, field and value and links it with that type, out of
\* the new node for "->" and into it for "<-"; with empty options the
\* statement has neither clause.
CreateLinksAsRequested ==
    stmt.kind = "create" =>
        /\ FullyNamed(call.options) =>
              /\ stmt.merge = <<[label |-> call.options.Label,
                                 field |-> call.options.Field,
                                 param |-> "relatedValue"]>>
              /\ stmt.params["relatedValue"] = call.options.Value
              /\ Len(stmt.link) = 1
              /\ stmt.link[1].rel = call.options.Rel
              /\ call.options.RelDirection = "->" =>
                    stmt.link[1].from = "n" /\ stmt.link[1].to = "r"
              /\ call.options.RelDirection = "<-" =>
                    stmt.link[1].from = "r" /\ stmt.link[1].to = "n"
        /\ call.options = EmptyOptions =>
              /\ stmt.merge = <<>> /\ stmt.link = <<>>
              /\ "relatedValue" \notin DOMAIN stmt.params
CreateLinksAsRequestedWitness ==
    /\ stmt.kind = "create" /\ baseT = "World"
    /\ call.options = [Field |-> "userID", Value |-> "7", Label |-> "User",
                       Rel |-> "OWNS", RelDirection |-> "<-"]
    /\ stmt.link = <<[rel |-> "OWNS", from |-> "r", to |-> "n"]>>
    /\ Len(stmt.merge) = 1

OwnsIn ==
    [Field |-> "userID", Value |-> "7", Label |-> "User", Rel |-> "OWNS",
     RelDirection |-> "<-"]
GraphOptions == {EmptyOptions, OwnsIn}
GraphEntities(T) ==
    IF T = "User"
    THEN {[Username |-> "alice", UserID |-> "7", ID |-> "", Worlds |-> <<>>]}
    ELSE {[ID |-> e[1], Name |-> e[2], Type |-> "", Description |-> "",
           Continents |-> <<>>, Oceans |-> <<>>] :
             e \in {<<"", "Ozia">>, <<"n1", "Eldor">>, <<"n9", "Eldor">>}}
Matches == {<<"userID", "7">>, <<"elementID", "n1">>, <<"elementID", "n9">>}
GraphDepths == {[Depth |-> 1, Limit |-> 0]}

GraphInit ==
    /\ baseT = "User"
    /\ model \in GraphEntities("User")
    /\ Label = ""
    /\ driver = "nil"
    /\ sessionsOpened = 0
    /\ q = NoDescriptor
    /\ models = <<>>
    /\ err = ""
    /\ lastOp = "none"
    /\ mappedNodes = NotBuilt
    /\ lastQuery = NoQuery
    /\ WriteIdle /\ WebIdle
    /\ RegIdle /\ TreeIdle /\ RelIdle

\* var world neoModels.World, filled from the request
NewEntity(T, entity) ==
    /\ pc = NoPc
    /\ baseT' = T
    /\ model' = entity
    /\ Label' = ""
    /\ driver' = "nil"
    /\ q' = NoDescriptor
    /\ models' = <<>>
    /\ err' = ""
    /\ lastOp' = "New"
    /\ mappedNodes' = NotBuilt
    /\ lastQuery' = NoQuery
    /\ stmt' = NoStmt
    /\ call' = NoArgs
    /\ lastTx' = NoTx
    /\ UNCHANGED <<sessionsOpened, graph, ids, calls, openSessions, pc>>

GNew ==
    \E T \in OpRoots : \E entity \in GraphEntities(T) :
        /\ lastOp # "Find"
        /\ NewEntity(T, entity)
        /\ UNCHANGED <<regVars, treeVars, relVars, webVars>>
GCreate ==
    \E options \in GraphOptions,
       driverOk \in (IF driver = "nil" THEN BOOLEAN ELSE {TRUE}), txOk \in {TRUE} :
        /\ lastOp # "Find"
        /\ Create(options, driverOk, txOk)
        /\ UNCHANGED <<regVars, treeVars, relVars, webVars>>
GUpdate ==
    \E options \in GraphOptions,
       driverOk \in (IF driver = "nil" THEN BOOLEAN ELSE {TRUE}), txOk \in {TRUE} :
        /\ lastOp # "Find"
        /\ Update(options, driverOk, txOk)
        /\ UNCHANGED <<regVars, treeVars, relVars, webVars>>
GDeleteRead ==
    \E m \in Matches, detach \in BOOLEAN,
       driverOk \in (IF driver = "nil" THEN BOOLEAN ELSE {TRUE}), txOk \in {TRUE} :
        /\ lastOp # "Find"
        /\ DeleteRead(m[1], m[2], [Detach |-> detach], driverOk, txOk)
        /\ UNCHANGED <<regVars, treeVars, relVars, webVars>>
GDeleteWrite ==
    \E txOk \in BOOLEAN :
        DeleteWrite(txOk) /\ UNCHANGED <<regVars, treeVars, relVars, webVars>>
GFind ==
    \E m \in Matches, aliased \in {TRUE} :
        /\ pc = NoPc
        /\ lastOp # "Find"
        /\ Find("ref", aliased, m[1], m[2])
        /\ UNCHANGED <<regVars, treeVars, relVars, writeVars, webVars>>
GPopulate ==
    \E options \in GraphDepths,
       driverOk \in (IF driver = "nil" THEN BOOLEAN ELSE {TRUE}), txOk \in {TRUE} :
        LET label  == IF Label = "" THEN baseT ELSE Label
            noRead == (driver = "nil" /\ ~driverOk) \/ q.model = "nil"
            failed == driver = "closed" \/ ~txOk \/ noRead
            c      == calls + 1
        IN  /\ pc = NoPc
            /\ lastOp = "Find"
            /\ calls < MaxOps
            /\ \E answer \in (IF failed THEN {QueryError}
                              ELSE engineRead(graph, buildQuery(label, options))) :
                  /\ Populate(options, driverOk, answer)
                  /\ lastTx' = IF noRead THEN lastTx
                               ELSE Tx(c, IF answer.records = <<>> THEN NonNode
                                          ELSE answer.records[1].n)
            /\ calls' = c
            /\ openSessions' = IF noRead THEN openSessions
                               ELSE afterDefer(openSessions \cup {c}, c)
            /\ UNCHANGED <<stmtVars, graph, ids, pc>>
            /\ UNCHANGED <<regVars, treeVars, relVars, webVars>>
GraphNext ==
    GNew \/ GCreate \/ GUpdate \/ GDeleteRead \/ GDeleteWrite \/ GFind \/ GPopulate
GraphSpec == GraphInit /\ [][GraphNext]_vars

(***************************************************************************)
(* Claims checked under GraphSpec.                                         *)
(***************************************************************************)
\* The errors of the connection: no driver, a driver already closed, a
\* transaction the server never saw.
ConnectionErrors ==
    {"failed to initialize Neo4j driver", "Trying to create session on closed driver",
     "connection error", "query error"}

\* The nodes of the graph carrying the identifier id.
Carrying(id) == {n \in graph.nodes : n.ElementId = id}

\* C13: after a successful Create the entity's ID is the identifier the
\* engine gave the new node, and wherever a node is mapped into the entity
\* (Create, the read-back of Delete, Populate) the ID is the node's element
\* identifier, whatever the node's property named id holds.
IdIsElementId ==
    /\ (lastOp = "Create" /\ err = "ok") =>
          /\ lastTx.node \in graph.nodes
          /\ model.ID = lastTx.node.ElementId
          /\ Cardinality(Carrying(model.ID)) = 1
    /\ pc.op = "Delete" =>
          /\ lastTx.node \in graph.nodes
          /\ model.ID = lastTx.node.ElementId
    /\ (lastOp = "Populate" /\ err = "ok") =>
          /\ lastTx.node \in graph.nodes
          /\ model.ID = lastTx.node.ElementId

\* A World sent with ID "n9" was created: the node keeps "n9" as its property
\* id and the entity holds the identifier of the engine.
IdIsElementIdWitness ==
    /\ lastOp = "Create" /\ err = "ok"
    /\ call.entity.ID = "n9"
    /\ lastTx.node.Props["id"] = "n9"
    /\ model.ID = lastTx.node.ElementId
    /\ model.ID # "n9"

\* The relationships of type rel leading from the node id to a node labelled
\* label, as positions in the list of relationships.
LinksFrom(id, rel, label) ==
    {k \in 1..Len(graph.edges) :
        /\ graph.edges[k].from = id
        /\ graph.edges[k].rel = rel
        /\ \E n \in graph.nodes : n.ElementId = graph.edges[k].to /\ HasLabel(n, label)}

\* The Users whose userID is v.
UsersWith(v) ==
    {n \in graph.nodes : HasLabel(n, "User") /\ "userID" \in DOMAIN n.Props
                          /\ n.Props["userID"] = v}

\* C14: a World created with the relation options (User by userID, OWNS,
\* direction "<-") is owned by every User carrying that userID, and
\* Find(User by userID).Populate(depth 1), once its read reaches the engine,
\* returns a matching User whose Worlds sequence holds exactly the Worlds it
\* owns, one element for each, carrying the World's identifier and name.
OwnedWorldsReturned ==
    /\ (lastOp = "Create" /\ err = "ok" /\ baseT = "World" /\ call.options = OwnsIn) =>
          /\ UsersWith("7") # {}
          /\ \A u \in UsersWith("7") :
                \E k \in LinksFrom(u.ElementId, "OWNS", "World") :
                    graph.edges[k].to = model.ID
    /\ (lastOp = "Populate" /\ baseT = "User" /\ q.field = "userID"
            /\ err \notin ConnectionErrors) =>
          IF UsersWith(q.value) = {}
          THEN err = "no nodes found"
          ELSE /\ err = "ok"
               /\ Carrying(model.ID) \subseteq UsersWith(q.value)
               /\ Carrying(model.ID) # {}
               /\ Len(model.Worlds) = Cardinality(LinksFrom(model.ID, "OWNS", "World"))
               /\ \A k \in LinksFrom(model.ID, "OWNS", "World") :
                     \E j \in 1..Len(model.Worlds) :
                         /\ model.Worlds[j].ID = graph.edges[k].to
                         /\ model.Worlds[j].Name =
                                NodeById(graph, graph.edges[k].to).Props["name"]

\* The scenario itself: with both labels registered, the User alice was
\* created, then the World Ozia linked to it, and the third call returned
\* alice with one World, Ozia.
OwnedWorldsReturnedWitness ==
    /\ {"User", "World"} \subseteq DOMAIN modelRegistry
    /\ lastOp = "Populate" /\ err = "ok" /\ baseT = "User"
    /\ calls = 3 /\ ids = 2
    /\ Len(graph.edges) = 1
    /\ model.Username = "alice" /\ model.UserID = "7"
    /\ Len(model.Worlds) = 1
    /\ model.Worlds[1].Name = "Ozia"
    /\ model.Worlds[1].ID \in NodeIds(graph)

\* A step that is a call of Update.
UpdateStep == lastOp' = "Update" /\ calls' = calls + 1

\* C16: an Update whose identifier matches no node of the label, once it
\* reaches the engine, returns no error and leaves the graph as it was, with
\* or without relation options: no node changes, none is created, no
\* relationship is added.
UpdateMissChangesNothing ==
    [][(/\ UpdateStep
        /\ MatchId(graph, Label', call'.entity.ID) = {}
        /\ err' \notin ConnectionErrors)
       => (err' = "ok" /\ graph' = graph /\ ids' = ids)]_vars

\* An Update with relation options returned no error for the identifier
\* "n9", which no node of the graph carries, while the graph holds nodes.
UpdateMissChangesNothingWitness ==
    /\ lastOp = "Update" /\ err = "ok"
    /\ call.options = OwnsIn
    /\ call.entity.ID = "n9"
    /\ Carrying("n9") = {}
    /\ graph.nodes # {}
    /\ UsersWith("7") = {}

\* The steps of Delete: the call up to the end of its read, and the deletion.
DeleteReadStep  == lastOp' = "Delete" /\ calls' = calls + 1
DeleteWriteStep == pc.op = "Delete" /\ pc'.op = "idle"
DeletionKinds   == {"delete", "detach delete"}

\* C17: a deletion statement is issued only by a Delete that has read a
\* matching node of the graph back and written it into the caller's entity,
\* and the deletion leaves the entity with that state; a Delete whose field
\* and value match no node fails with the not-found error, issues no
\* deletion statement, changes nothing in the graph and leaves the entity
\* as the caller passed it.
DeleteReadsBackFirst ==
    [][/\ (stmt'.kind \in DeletionKinds /\ stmt' # stmt) =>
            /\ DeleteWriteStep
            /\ stmt.kind = "retrieve"
            /\ lastTx.node \in MatchFor(graph, Label, pc.field, pc.value)
            /\ model = mapNodeToModel(lastTx.node, baseT, call.entity)
            /\ model' = model
       /\ (DeleteReadStep /\ err' \notin ConnectionErrors
              /\ MatchFor(graph, Label', call'.field, call'.value) = {}) =>
            /\ err' = "node not found for deletion"
            /\ stmt'.kind \notin DeletionKinds
            /\ pc' = NoPc
            /\ model' = model
            /\ graph' = graph
       /\ (DeleteReadStep /\ err' \notin ConnectionErrors
              /\ MatchFor(graph, Label', call'.field, call'.value) # {}) =>
            /\ pc'.op = "Delete"
            /\ graph' = graph
      ]_vars

\* A Delete called with the World Eldor succeeded: the entity holds the name
\* and the identifier of the deleted node, which is no longer in the graph.
DeleteReadsBackFirstWitness ==
    /\ lastOp = "Delete" /\ err = "ok" /\ pc = NoPc
    /\ stmt.kind \in DeletionKinds
    /\ baseT = "World"
    /\ call.entity.Name = "Eldor" /\ call.entity.ID = "n9"
    /\ model.Name = "Ozia"
    /\ model.ID = "n1"
    /\ Carrying("n1") = {}

\* C18: a deletion without detach of a node that still has a relationship,
\* once it reaches the engine, fails with the engine's own error, passed on
\* as it is, and leaves every node and relationship in the graph.
DeleteKeepsLinkedNode ==
    [][(/\ DeleteWriteStep
        /\ ~pc.detach
        /\ \E n \in MatchFor(graph, Label, pc.field, pc.value) :
               Incident(graph, n.ElementId) # {}
        /\ err' \notin ConnectionErrors)
       => (/\ err' = engineDelete(graph, Label, pc.field, pc.value, FALSE).err
           /\ err' = "Cannot delete node, because it still has relationships"
           /\ graph' = graph)]_vars

\* A World with an incoming OWNS relationship was to be deleted without
\* detach: the call failed and the World and the relationship are there.
DeleteKeepsLinkedNodeWitness ==
    /\ lastOp = "Delete" /\ pc = NoPc
    /\ ~call.detach
    /\ err = "Cannot delete node, because it still has relationships"
    /\ baseT = "World"
    /\ Carrying(model.ID) # {}
    /\ \E k \in 1..Len(graph.edges) :
          graph.edges[k].to = model.ID /\ graph.edges[k].rel = "OWNS"

\* The relationships of a graph, as a set, and those with an end among ids.
EdgeSet(g) == {g.edges[k] : k \in 1..Len(g.edges)}
Touching(g, dropIds) == {e \in EdgeSet(g) : e.from \in dropIds \/ e.to \in dropIds}

\* Every relationship joins two nodes of the graph.
NoDanglingEdge ==
    \A e \in EdgeSet(graph) : e.from \in NodeIds(graph) /\ e.to \in NodeIds(graph)

\* C19: a deletion with detach, once it reaches the engine, succeeds and
\* removes the matching nodes and every relationship touching them in one
\* step, leaving the rest of the graph; no state shows a relationship without
\* one of its nodes, and no step removes a relationship whose two nodes both
\* remain; a later Find(...).Populate by an identifier no node carries, once
\* its read reaches the engine, fails with the not-found error.
DetachDeleteIsAtomic ==
    /\ []NoDanglingEdge
    /\ [][/\ (DeleteWriteStep /\ pc.detach /\ err' \notin ConnectionErrors) =>
              LET hit == MatchFor(graph, Label, pc.field, pc.value)
                  hitIds == {n.ElementId : n \in hit}
              IN  /\ err' = "ok"
                  /\ hit # {}
                  /\ graph'.nodes = graph.nodes \ hit
                  /\ EdgeSet(graph') = EdgeSet(graph) \ Touching(graph, hitIds)
           /\ \A e \in EdgeSet(graph) \ EdgeSet(graph') :
                 e.from \notin NodeIds(graph') \/ e.to \notin NodeIds(graph')
          ]_vars
    /\ []((/\ lastOp = "Populate"
           /\ q.field = "elementID"
           /\ Carrying(q.value) = {}
           /\ err \notin ConnectionErrors) => err = "no nodes found")

\* The World n1, created with an incoming OWNS relationship, was deleted with
\* detach: the relationship went with it, and the next call, a
\* Find(...).Populate for n1, returned the not-found error.
DetachDeleteIsAtomicWitness ==
    /\ lastOp = "Populate" /\ err = "no nodes found"
    /\ baseT = "World"
    /\ q.field = "elementID" /\ q.value = "n1"
    /\ calls = 3 /\ ids = 2
    /\ Carrying("n1") = {}
    /\ Carrying("n2") # {}
    /\ graph.edges = <<>>

\* C20: between calls no session is open, whatever way the last call
\* returned; while a Delete is between its read and its deletion the only
\* open session is the one that call opened; and every transaction ran in
\* the session of the call that ran it, a session no earlier call opened.
SessionsAreScoped ==
    /\ []((pc = NoPc => openSessions = {})
          /\ (pc.op = "Delete" => openSessions = {pc.session} /\ pc.session = calls)
          /\ lastTx.session = lastTx.call
          /\ lastTx.call <= calls)
    /\ [][/\ lastTx' # lastTx /\ lastTx' # NoTx => lastTx'.session = calls'
          /\ calls' # calls => calls' = calls + 1 /\ calls' \notin openSessions
          /\ openSessions' \subseteq {calls'}]_vars

\* Three calls have returned, the last one a deletion refused by the engine
\* after a successful read in the same session: no session is open.
SessionsAreScopedWitness ==
    /\ calls = 3
    /\ lastOp = "Delete" /\ pc = NoPc
    /\ err \notin ConnectionErrors \cup {"ok", ""}
    /\ stmt.kind = "delete"
    /\ lastTx.session = 3
    /\ openSessions = {}

(***************************************************************************)
(* QbSpec: calls on one QueryBuilder, in any order, and Build.             *)
(***************************************************************************)
Clauses     == {"(u)", "w"}
ParamKeys   == {"name", "userID"}
ParamValues == {"Ozia", "7"}

QbInit ==
    /\ WebIdle
    /\ RegIdle /\ TreeIdle /\ RelIdle /\ OpIdle /\ WriteIdle

QbIdleRest == UNCHANGED <<regVars, treeVars, relVars, opVars, writeVars, muxVars>>
QbOpen == Len(qbLog) < MaxQbCalls /\ ~qbOut.built

QbWith   == \E c \in Clauses : QbOpen /\ With(c) /\ QbIdleRest
QbMatch  == \E c \in Clauses : QbOpen /\ Match(c) /\ QbIdleRest
QbCreateClause == \E c \in Clauses : QbOpen /\ QbCreate(c) /\ QbIdleRest
QbOptionalMatch == \E c \in Clauses : QbOpen /\ OptionalMatch(c) /\ QbIdleRest
QbReturn == \E c \in Clauses : QbOpen /\ Return(c) /\ QbIdleRest
QbWithParam ==
    \E k \in ParamKeys, v \in ParamValues : QbOpen /\ WithParam(k, v) /\ QbIdleRest
QbBuild  == ~qbOut.built /\ Build /\ QbIdleRest
QbNext ==
    QbWith \/ QbMatch \/ QbCreateClause \/ QbOptionalMatch \/ QbReturn
        \/ QbWithParam \/ QbBuild
QbSpec == QbInit /\ [][QbNext]_vars

\* The fragments the calls of the history wrote, in the order of the calls.
RECURSIVE FragmentsOf(_)
FragmentsOf(log) ==
    IF log = <<>> THEN <<>>
    ELSE LET c == log[1]
         IN  (IF c.method = "param" THEN <<>> ELSE <<Fragment(c.method, c.a)>>)
                 \o FragmentsOf(Tail(log))

\* The last value the history gave the key k.
RECURSIVE LastParam(_, _)
LastParam(log, k) ==
    IF log = <<>> THEN NilValue
    ELSE LET c == log[Len(log)]
         IN  IF c.method = "param" /\ c.a = k THEN c.b
             ELSE LastParam(SubSeq(log, 1, Len(log) - 1), k)
ParamsAdded(log) == {log[i].a : i \in {j \in 1..Len(log) : log[j].method = "param"}}

\* C21: Build returns the fragments of the calls made, in the order of the
\* calls, the Return fragment at the position of its call, and every
\* parameter WithParam added.
BuildKeepsCallOrder ==
    qbOut.built =>
        /\ qbOut.query = FragmentsOf(qbLog)
        /\ DOMAIN qbOut.params = ParamsAdded(qbLog)
        /\ \A k \in DOMAIN qbOut.params : qbOut.params[k] = LastParam(qbLog, k)

(***************************************************************************)
(* Further claims checked under GraphSpec.                                 *)
(***************************************************************************)
\* The text of a statement and of a read query: all of it but the parameters.
QueryText(st) ==
    [kind |-> st.kind, label |-> st.label, props |-> st.props,
     matchField |-> st.matchField, matchParam |-> st.matchParam,
     merge |-> st.merge, link |-> st.link]
ReadText(query) == [query EXCEPT !.params = <<>>]

\* The same call with other scalar values: every field value, the related
\* node's value where one is given, the match value.
OtherValue == "other"
OtherEntity(T, entity) ==
    [fn \in DOMAIN entity |->
        IF FieldByName(T, fn).node # "" THEN OtherValue ELSE entity[fn]]
OtherOptions(o) ==
    [o EXCEPT !.Value = IF @ = NilValue THEN NilValue ELSE OtherValue]

\* C22: the text of every statement Create, Update and Delete compose, and
\* of every query Populate composes, is the text the same call composes with
\* other field values, another related value and another match value: the
\* values are found in the parameters only.
ValuesOnlyInParameters ==
    /\ stmt.kind = "create" =>
          QueryText(stmt) = QueryText(buildCreateQuery(baseT, stmt.label,
                                OtherEntity(baseT, call.entity), OtherOptions(call.options)))
    /\ stmt.kind = "update" =>
          QueryText(stmt) = QueryText(buildUpdateQuery(baseT, stmt.label,
                                OtherEntity(baseT, call.entity), OtherOptions(call.options)))
    /\ stmt.kind \in DeletionKinds \cup {"retrieve"} =>
          /\ QueryText(stmt) = QueryText(deleteStmt(stmt.kind, stmt.label, call.field, OtherValue))
          /\ stmt.params["value"] = call.value
    /\ (lastOp = "Populate" /\ lastQuery # NoQuery) =>
          /\ ReadText(lastQuery) =
                ReadText(buildQueryOf([q EXCEPT !.value = OtherValue], lastQuery.label, q.options))
          /\ lastQuery.params = <<q.field, q.value>>

\* A World named Ozia was created for the User 7: the statement carries both
\* values as parameters and reads as the one for other values.
ValuesOnlyInParametersWitness ==
    /\ stmt.kind = "create" /\ baseT = "World"
    /\ call.entity.Name = "Ozia" /\ call.options = OwnsIn
    /\ stmt.params["name"] = "Ozia"
    /\ stmt.params["relatedValue"] = "7"
    /\ QueryText(stmt) = QueryText(buildCreateQuery(baseT, stmt.label,
                              [call.entity EXCEPT !.Name = "Eldor"],
                              [OwnsIn EXCEPT !.Value = "8"]))

(***************************************************************************)
(* RelWalkSpec: the walk of RelSpec, run to its end: a call that can take  *)
(* a step takes it.                                                        *)
(***************************************************************************)
RelWalkSpec == RelSpec /\ WF_vars(RelNext)

\* The types the walk enters from the type s, and from those, in n steps.
DescendTargets(s) ==
    {relSchema[s][i].elem :
        i \in {j \in RelFieldsAt(s) :
                  /\ relSchema[s][j].kind \in {"struct", "ptr", "slice_ptr"}
                  /\ relSchema[s][j].elem \in DOMAIN relSchema}}
RECURSIVE DescendedFrom(_, _)
DescendedFrom(S, n) ==
    IF n = 0 THEN S
    ELSE LET D == DescendedFrom(S, n - 1)
         IN  D \cup UNION {DescendTargets(s) : s \in D}
Entered == DescendedFrom({relRoot}, Cardinality(DOMAIN relSchema))

\* A type the walk enters refers back to itself, directly or through others.
CycleEntered ==
    \E s \in Entered :
        s \in DescendedFrom(DescendTargets(s), Cardinality(DOMAIN relSchema))

\* The walk wants one more nested call with the stack at its bound.
StillDescending ==
    /\ Len(stack) = MaxStack
    /\ InLoop
    /\ WellTagged(TopField)
    /\ recurses(TopField, Top.depth)

\* C23: nothing guards the walk against cycles.  With depth 0 on a schema
\* whose entered types refer back to themselves the walk never returns, and
\* goes on nesting calls to any bound on the stack; with a positive depth it
\* returns on every schema, cyclic or not.
NoCycleGuard ==
    /\ []((relDepth = 0 /\ CycleEntered) => ~WalkDone)
    /\ ((relDepth = 0 /\ CycleEntered) ~> StillDescending)
    /\ ((relDepth > 0) ~> WalkDone)

\* A walk of depth 0 on a type that refers to itself, still nesting calls
\* with the stack at its bound.
NoCycleGuardWitness ==
    /\ relDepth = 0
    /\ relRoot \in DescendTargets(relRoot)
    /\ StillDescending
    /\ Len(paths) >= MaxStack

(***************************************************************************)
(* MuxSpec: Use and Handle calls on one Router, in any order, and requests *)
(* served by its Mux.                                                      *)
(***************************************************************************)
Methods         == {"GET", "POST"}
RoutePaths      == {<<Lit("users")>>, <<Lit("users"), Par("id")>>}
RequestPaths    == {<<Lit("users")>>, <<Lit("users"), Lit("7")>>, <<Lit("worlds")>>}
Queries         == {<<>>, <<<<"sort", "asc">>>>, <<<<"sort", "asc">>, <<"page", "2">>>>,
                    <<<<"debug">>>>}
RouterMiddlewares == {"log", "auth"}
RouteMiddlewares == {<<>>, <<"m">>}
Requests        == [method : Methods, path : RequestPaths, query : Queries]

MuxInit ==
    /\ WebIdle
    /\ RegIdle /\ TreeIdle /\ RelIdle /\ OpIdle /\ WriteIdle

MuxIdleRest == UNCHANGED <<regVars, treeVars, relVars, opVars, writeVars, qbVars>>
MuxUse ==
    \E m \in RouterMiddlewares :
        Len(regLog) < MaxRegs /\ Use(m) /\ MuxIdleRest
MuxHandle ==
    \E method \in Methods, path \in RoutePaths, middleware \in RouteMiddlewares :
        Len(regLog) < MaxRegs /\ Handle(method, path, middleware) /\ MuxIdleRest
\* One request is followed through each arrangement of the routes.
MuxServe == \E r \in Requests : req = NoRequest /\ ServeHTTP(r) /\ MuxIdleRest
MuxNext == MuxUse \/ MuxHandle \/ MuxServe
MuxSpec == MuxInit /\ [][MuxNext]_vars

\* The middleware given to Use, in the order of the calls.
IsUse(c) == c.call = "Use"
UsesOf(log) == LET u == SelectSeq(log, IsUse) IN [i \in 1..Len(u) |-> u[i].name]
KindsAt(kind) == {i \in 1..Len(served.trace) : served.trace[i].kind = kind}

\* C24: for every request that reaches a handler, the middleware given to
\* Use has run once each, in the order of the Use calls, before any
\* middleware of the route and before the handler, whether the route was
\* registered before or after the Use call.
UseAppliesToAllRoutes ==
    served.status = "handled" =>
        LET uses == UsesOf(regLog)
            n    == Len(uses)
        IN  /\ KindsAt("router") = 1..n
            /\ \A i \in 1..n : served.trace[i] = Ran("router", uses[i])
            /\ KindsAt("handler") = {Len(served.trace)}
            /\ KindsAt("route") = (n + 1)..(Len(served.trace) - 1)

\* A route with middleware of its own was registered, Use was called after
\* it, and a request to the route ran the router's middleware first.
UseAppliesToAllRoutesWitness ==
    /\ served.status = "handled"
    /\ Len(regLog) = 3
    /\ regLog[1].call = "Handle" /\ regLog[1].middleware = <<"m">>
    /\ regLog[2].call = "Use" /\ regLog[3].call = "Use"
    /\ regLog[2].name # regLog[3].name
    /\ served.trace = <<Ran("router", regLog[2].name), Ran("router", regLog[3].name),
                        Ran("route", "m"), Ran("handler", regLog[1].handler)>>

\* The keys of a raw query that come with a value.
KeyedParts(query) == {i \in 1..Len(query) : Len(query[i]) >= 2}

\* C25: the Context handed to a handler gives, for every key of the query
\* string, its value, on routes matched literally and on routes matched
\* through path parameters, and for every ":name" segment of the matched
\* route the request's segment at that position.
ContextExposesParams ==
    served.status = "handled" =>
        /\ \A i \in KeyedParts(req.query) :
              GetQueryParam(served.context, req.query[i][1]) = req.query[i][2]
        /\ \A i \in 1..Len(served.route) :
              served.route[i].colon =>
                  GetPathParam(served.context, served.route[i].text) = req.path[i]

\* The middleware given to Handle for a method and a path, over all the
\* calls that registered that route.
RECURSIVE MiddlewareFor(_, _, _)
MiddlewareFor(log, method, path) ==
    IF log = <<>> THEN <<>>
    ELSE (IF log[1].call = "Handle" /\ log[1].method = method /\ log[1].path = path
          THEN log[1].middleware ELSE <<>>)
            \o MiddlewareFor(Tail(log), method, path)
RouteRuns == [i \in 1..Cardinality(KindsAt("route")) |->
                 served.trace[Len(served.trace) - Cardinality(KindsAt("route")) - 1 + i]]

\* C30: a request dispatched to a route runs the middleware given to Handle
\* for that method and path and no other route's, and a request that
\* matches no route runs no route middleware and no handler.
RouteMiddlewareStaysOnRoute ==
    /\ served.status = "handled" =>
          /\ KindsAt("handler") = {Len(served.trace)}
          /\ RouteRuns = RunAll("route", MiddlewareFor(regLog, req.method, served.route))
    /\ served.status = "not found" =>
          KindsAt("route") \cup KindsAt("handler") = {}

\* C26: no call made through one entity's base model opens its session on
\* a driver an earlier call closed: a call that gets as far as a session
\* finds the driver live or has just initialised it.
SessionsOnLiveDriver ==
    [][(calls' = calls + 1 /\ err' # "failed to initialize Neo4j driver")
          => driver # "closed"]_vars

(***************************************************************************)
(* ShapeSpec: the statement builders of StmtSpec on a type parameter of    *)
(* the caller's own.                                                       *)
(***************************************************************************)
ShapeInit ==
    /\ baseT \in {"Reading", "World"}
    /\ Label = baseT
    /\ model \in StmtEntities(baseT)
    /\ driver = "open"
    /\ sessionsOpened = 0
    /\ q = NoDescriptor
    /\ models = <<>>
    /\ err = ""
    /\ lastOp = "none"
    /\ mappedNodes = NotBuilt
    /\ lastQuery = NoQuery
    /\ WriteIdle /\ WebIdle
    /\ RegIdle /\ TreeIdle /\ RelIdle
ShapeSpec == ShapeInit /\ [][StmtNext]_vars

\* The field of T whose property key is tag.
FieldTagged(T, tag) ==
    FieldsOf(T)[CHOOSE i \in FieldIdx(T) : FieldsOf(T)[i].node = tag]

\* C27: in the statements of Create and Update every placeholder is bound
\* to the value meant for it: each property placeholder to its field's
\* value, "value" to the identifier Update matches on, "relatedValue" to the
\* related node's value, whatever the property keys of the shape are called.
PlaceholdersKeepTheirValues ==
    stmt.kind \in {"create", "update"} =>
        /\ \A k \in 1..Len(stmt.props) :
              stmt.params[stmt.props[k].param] =
                  call.entity[FieldTagged(baseT, stmt.props[k].key).name]
        /\ stmt.kind = "update" => stmt.params[stmt.matchParam] = call.entity.ID
        /\ \A k \in 1..Len(stmt.merge) :
              stmt.params[stmt.merge[k].param] = call.options.Value

\* C28: a Delete that succeeds removes exactly one node, the one it read
\* back into the caller's entity, in the state the entity shows, however
\* many nodes match the field and the value.
DeleteRemovesTheNodeRead ==
    [][(DeleteWriteStep /\ err' = "ok") =>
          /\ graph.nodes \ graph'.nodes = {lastTx.node}
          /\ model' = mapNodeToModel(lastTx.node, baseT, call.entity)]_vars

\* C29: Populate returns, with success or with an error value, for a
\* descriptor of Find and for a descriptor of FindAll: composing the query
\* never reads what the descriptor does not hold.
PopulateAlwaysReturns ==
    lastOp = "Populate" =>
        /\ lastQuery.text # "panic"
        /\ err # "panic: nil pointer dereference"

====
